---- MODULE Spec2Model ----
(***************************************************************************)
(* A model of the amnesia machine-unlearning core: the ShardManager        *)
(* (core/sisa/shard_manager.py), the SISATrainer and ShardAggregator       *)
(* (core/sisa/trainer.py, core/sisa/aggregator.py), the UnlearningEngine   *)
(* (core/unlearning/gradient_ascent.py) and the verification entry points  *)
(* (core/verification, api/routes/verification.py).                        *)
(***************************************************************************)
EXTENDS Integers, Sequences, FiniteSets, TLC

(***************************************************************************)
(* Bounds of the model.                                                    *)
(***************************************************************************)
MaxN == 2          \* largest dataset length len(dataset)
MaxShards == 2     \* largest num_shards a manager is constructed with
MaxSeed == 1       \* largest random_seed a manager is constructed with
MaxCreates == 2    \* number of create_shards calls that build shards in one run
MaxObjects == 3    \* number of model objects instantiated in one run
MaxSamples == 2    \* largest forget set, retain set or verification batch
MaxEpochs == 2     \* largest UnlearningConfig.epochs
MaxSteps == 2      \* optimizer steps told apart on one model ("2" is "2 or more")
MaxReaders == 1    \* threads calling predict
MaxWriters == 2    \* threads calling retrain_shard / save_shard_checkpoint
MaxQueue == 2      \* background tasks waiting at one time

(***************************************************************************)
(* Python values.                                                          *)
(***************************************************************************)
None == -1                      \* Python's None where an int is expected
NoPath == "None"                \* ShardInfo.model_path = None
NoId == ""                      \* no data_id argument

\* dict helpers: d[k] = v and del d[k]
Put(d, k, v) == [x \in (DOMAIN d) \cup {k} |-> IF x = k THEN v ELSE d[x]]
Del(d, k) == [x \in (DOMAIN d) \ {k} |-> d[x]]
EmptyDict == [x \in {} |-> None]

Range(s) == {s[i] : i \in DOMAIN s}

RECURSIVE SumOver(_, _)
SumOver(S, f) ==
    IF S = {} THEN 0
    ELSE LET x == CHOOSE y \in S : TRUE IN f[x] + SumOver(S \ {x}, f)

\* the data ids a caller may supply; "data_0" collides with a generated id
CallerIds == {"data_0", "u"}

\* f"data_{i}"  (create_shards, default data_ids)
DefaultId(i) == "data_" \o ToString(i)

Min(a, b) == IF a < b THEN a ELSE b

RECURSIVE Factorial(_)
Factorial(n) == IF n <= 1 THEN 1 ELSE n * Factorial(n - 1)

\* list.remove(x): drops the first occurrence of x
RECURSIVE ListRemove(_, _)
ListRemove(s, x) ==
    IF s = <<>> THEN <<>>
    ELSE IF Head(s) = x THEN Tail(s)
    ELSE <<Head(s)>> \o ListRemove(Tail(s), x)

(***************************************************************************)
(* np.random.seed(seed); np.random.permutation(n): a function of (seed, n) *)
(* whose values are permutations of 0..n-1.  The generator itself is not   *)
(* reproduced; the seed selects the permutation of that rank, so that the  *)
(* seeds of the model reach every permutation of a small dataset.          *)
(***************************************************************************)
RECURSIVE Unrank(_, _)
Unrank(r, items) ==
    IF items = <<>> THEN <<>>
    ELSE LET f == Factorial(Len(items) - 1)
             i == (r \div f) + 1
         IN <<items[i]>> \o Unrank(r % f, ListRemove(items, items[i]))

permutation(seed, n) == Unrank(seed % Factorial(n), [i \in 1..n |-> i - 1])

\* np.array_split(indices, k)[j] for 0 <= j < k: the first n % k sections
\* have n // k + 1 elements, the others n // k
array_split_dropextra(indices, k, j) ==
    LET each == Len(indices) \div k
    IN SubSeq(indices, j * each + 1, (j + 1) * each)

array_split(indices, k, j) ==
    LET n == Len(indices)
        each == n \div k
        extras == n % k
        start == j * each + Min(j, extras)
        size == each + (IF j < extras THEN 1 ELSE 0)
    IN SubSeq(indices, start + 1, start + size)

VARIABLES
    num_shards,         \* ShardManager.num_shards
    random_seed,        \* ShardManager.random_seed
    shards,             \* ShardManager.shards: shard index -> ShardInfo
    data_to_shard,      \* ShardManager.data_to_shard: data_id -> DataMapping
    index_to_data_id,   \* ShardManager.index_to_data_id: index -> data_id
    uuid_count,         \* number of uuids generate_uuid() has handed out
    manager_file,       \* the JSON file ShardManager.save wrote
    removed,            \* history: the (shard, index) pairs of the removals
                        \* since the shards were built
    models,             \* SISATrainer.models: shard index -> model object
    heap,               \* the model objects: object -> its parameters
    obj_count,          \* number of model objects instantiated
    aggregator,         \* SISATrainer.aggregator (its models dict is the
                        \* trainer's models dict, the same object)
    model_files,        \* the shard_{idx}_{trainer_id}.pt files
    verdict,            \* the last verification result an entry point produced
    certificates,       \* the certificates (PDF and JSON record) written
    engine,             \* the UnlearningEngine and its unlearn call in progress
    readers,            \* thread -> its predict call in flight
    writers,            \* thread -> its retrain_shard / save_shard_checkpoint
                        \* call in flight
    vision_files,       \* storage/models/shard_{id}.pth: shard id -> parameters
    background,         \* the BackgroundTasks not yet run
    last                \* the last call and what it returned

mgr_vars == <<num_shards, random_seed, shards, data_to_shard,
              index_to_data_id, uuid_count, manager_file, removed>>

trainer_vars == <<models, heap, obj_count, aggregator, model_files>>

verify_vars == <<verdict, certificates>>

conc_vars == <<readers, writers>>

task_vars == <<vision_files, background>>

ext_vars == <<verdict, certificates, engine, readers, writers, vision_files,
              background>>

vars == <<num_shards, random_seed, shards, data_to_shard, index_to_data_id,
          uuid_count, manager_file, removed, models, heap, obj_count,
          aggregator, model_files, verdict, certificates, engine, readers,
          writers, vision_files, background, last>>

\* no verification has run yet
NoVerdict ==
    [entry |-> "none", raised |-> FALSE, forget_below |-> FALSE,
     retain_above |-> FALSE, positive |-> FALSE]

\* no UnlearningEngine has been constructed
NoEngine == [created |-> FALSE]

Readers == 1..MaxReaders

Writers == (MaxReaders + 1)..(MaxReaders + MaxWriters)

\* a thread with no predict call in flight
NoPredict ==
    [pc |-> "idle", todo |-> {}, size |-> 0, shard_idx |-> None, obj |-> None,
     first |-> None, torn |-> FALSE]

\* a thread with no mutating call in flight
NoWrite ==
    [op |-> "none", pc |-> "idle", shard_idx |-> None, n |-> None,
     indices |-> <<>>, obj |-> None]

\* the model objects the calls rd and wr in flight refer to
HeldBy(rd, wr) ==
    {rd[t].obj : t \in {u \in Readers : rd[u].obj # None}}
        \cup {wr[t].obj : t \in {u \in Writers : wr[u].obj # None}}

HeldByCalls == HeldBy(readers, writers)

\* the model objects an engine or a call in flight refers to
Held == (IF engine.created THEN {engine.model} ELSE {}) \cup HeldByCalls

\* a call, its arguments, how it ended ("returned", "raised", or "empty" for
\* the {"status": "empty"} result) and the value it returned
Call(op, id, n, status, ret) ==
    [op |-> op, id |-> id, n |-> n, status |-> status, ret |-> ret]

(***************************************************************************)
(* ShardManager                                                            *)
(***************************************************************************)
\* datetime.now().isoformat() as read inside the call op.  The model names
\* an instant by the call that read the clock: two stamps with different
\* names were read by different calls, at different instants
now(op) == op

\* ShardInfo(shard_id, shard_index, num_samples, data_indices) and its
\* __post_init__ (lines 30-33): created_at and updated_at are stamped
ShardInfo_uncounted(shard_id, shard_idx, indices_list) ==
    [shard_id |-> shard_id, shard_index |-> shard_idx,
     num_samples |-> 0, data_indices |-> indices_list,
     model_path |-> NoPath,
     created_at |-> now("create_shards"), updated_at |-> now("create_shards")]

ShardInfo(shard_id, shard_idx, indices_list) ==
    [shard_id |-> shard_id, shard_index |-> shard_idx,
     num_samples |-> Len(indices_list), data_indices |-> indices_list,
     model_path |-> NoPath,
     created_at |-> now("create_shards"), updated_at |-> now("create_shards")]

DataMapping(data_id, data_index, shard_id, shard_idx) ==
    [data_id |-> data_id, data_index |-> data_index,
     shard_id |-> shard_id, shard_index |-> shard_idx]

\* lines 91-92: data_ids = [f"data_{i}" ...] when the caller passes None
\* (given = FALSE)
DataIdsOf(n, given, ids) ==
    IF given THEN ids ELSE [i \in 1..n |-> DefaultId(i - 1)]

\* lines 98-99: for idx, data_id in enumerate(data_ids)
IndexToDataIdAfter(i2d, data_ids) ==
    [i \in (DOMAIN i2d) \cup {p - 1 : p \in DOMAIN data_ids} |->
        IF i + 1 \in DOMAIN data_ids THEN data_ids[i + 1] ELSE i2d[i]]

\* the section (shard index) that holds entry p (1-based) of the permutation
SectionOf(indices, k, p) ==
    CHOOSE j \in 0..(k - 1) : indices[p] \in Range(array_split(indices, k, j))

\* lines 108-120: the loop over the sections, each with a fresh shard_id
ShardsAfter(old, indices, k, uuid0) ==
    [s \in (DOMAIN old) \cup 0..(k - 1) |->
        IF s \in 0..(k - 1)
        THEN ShardInfo(uuid0 + s, s, array_split(indices, k, s))
        ELSE old[s]]

\* lines 123-131: data_to_shard[data_id] = mapping, in the order of the
\* sections, so the last index carrying a data_id wins
DataToShardAfter(old, i2d, indices, k, uuid0) ==
    LET placed == {p \in DOMAIN indices :
                      \E j \in 0..(k - 1) : indices[p] \in Range(array_split(indices, k, j))}
        ids == {i2d[indices[p]] : p \in placed}
        lastPos(d) == CHOOSE p \in placed :
                          /\ i2d[indices[p]] = d
                          /\ \A q \in placed : i2d[indices[q]] = d => q <= p
    IN [d \in (DOMAIN old) \cup ids |->
          IF d \in ids
          THEN LET p == lastPos(d)
                   s == SectionOf(indices, k, p)
               IN DataMapping(d, indices[p], uuid0 + s, s)
          ELSE old[d]]

\* how create_shards ends: "mismatch" (line 95 raises ValueError before any
\* change), "split" (np.array_split raises ValueError for num_shards < 1,
\* after lines 98-99 ran) or "built"
CreateOutcome_shorter(n, given, ids) ==
    IF Len(DataIdsOf(n, given, ids)) < n THEN "mismatch"
    ELSE IF num_shards < 1 THEN "split"
    ELSE "built"

CreateOutcome(n, given, ids) ==
    IF Len(DataIdsOf(n, given, ids)) # n THEN "mismatch"
    ELSE IF num_shards < 1 THEN "split"
    ELSE "built"

\* the shards dict create_shards leaves behind
CreatedShards_unseeded(n, given, ids) ==
    IF CreateOutcome(n, given, ids) = "built"
    THEN ShardsAfter(shards, permutation(random_seed + uuid_count, n),
                     num_shards, uuid_count)
    ELSE shards

CreatedShards(n, given, ids) ==
    IF CreateOutcome(n, given, ids) = "built"
    THEN ShardsAfter(shards, permutation(random_seed, n), num_shards, uuid_count)
    ELSE shards

\* create_shards(dataset, data_ids) with len(dataset) = n: its effect on the
\* mappings (the shards dict it builds is CreatedShards)
create_shards(n, given, ids) ==
    LET data_ids == DataIdsOf(n, given, ids)
        indices == permutation(random_seed, n)
        outcome == CreateOutcome(n, given, ids)
    IN /\ outcome = "built" => uuid_count < MaxCreates * num_shards
       /\ index_to_data_id' =
            IF outcome = "mismatch" THEN index_to_data_id
            ELSE IndexToDataIdAfter(index_to_data_id, data_ids)
       /\ data_to_shard' =
            IF outcome = "built"
            THEN DataToShardAfter(data_to_shard, index_to_data_id',
                                  indices, num_shards, uuid_count)
            ELSE data_to_shard
       /\ uuid_count' = IF outcome = "built" THEN uuid_count + num_shards ELSE uuid_count
       /\ removed' = IF outcome = "built" THEN {} ELSE removed
       /\ UNCHANGED <<num_shards, random_seed>>

\* get_shard_for_data(data_id)
get_shard_for_data(d2s, data_id) ==
    IF data_id \notin DOMAIN d2s THEN None ELSE d2s[data_id].shard_index

\* get_data_indices_for_shard(shard_idx)
get_data_indices_for_shard(sh, shard_idx) ==
    IF shard_idx \notin DOMAIN sh THEN <<>> ELSE sh[shard_idx].data_indices

\* set_model_path(shard_idx, model_path)
set_model_path_all(sh, shard_idx, model_path) ==
    IF shard_idx \in DOMAIN sh
    THEN [s \in DOMAIN sh |-> [sh[s] EXCEPT !.model_path = model_path,
                                              !.updated_at = now("set_model_path")]]
    ELSE sh

set_model_path(sh, shard_idx, model_path) ==
    IF shard_idx \in DOMAIN sh
    THEN [sh EXCEPT ![shard_idx].model_path = model_path,
                    ![shard_idx].updated_at = now("set_model_path")]
    ELSE sh

\* remove_data_from_shard(data_id)
remove_data_from_shard_keyerror(data_id) ==
    IF data_id \notin DOMAIN data_to_shard
    THEN /\ last' = Call("remove_data_from_shard", data_id, None, "raised", None)
         /\ UNCHANGED mgr_vars
    ELSE LET mapping == data_to_shard[data_id]
             shard_idx == mapping.shard_index
             data_index == mapping.data_index
         IN /\ shards' =
                 IF /\ shard_idx \in DOMAIN shards
                    /\ data_index \in Range(shards[shard_idx].data_indices)
                 THEN [shards EXCEPT
                         ![shard_idx].data_indices = ListRemove(@, data_index),
                         ![shard_idx].num_samples = @ - 1,
                         ![shard_idx].updated_at = now("remove_data_from_shard")]
                 ELSE shards
            /\ data_to_shard' = Del(data_to_shard, data_id)
            /\ index_to_data_id' =
                 IF data_index \in DOMAIN index_to_data_id
                 THEN Del(index_to_data_id, data_index)
                 ELSE index_to_data_id
            /\ removed' = removed \cup {<<shard_idx, data_index>>}
            /\ last' = Call("remove_data_from_shard", data_id, data_index,
                            "returned", shard_idx)
            /\ UNCHANGED <<num_shards, random_seed, uuid_count, manager_file>>

remove_data_from_shard(data_id) ==
    IF data_id \notin DOMAIN data_to_shard
    THEN /\ last' = Call("remove_data_from_shard", data_id, None, "returned", None)
         /\ UNCHANGED mgr_vars
    ELSE LET mapping == data_to_shard[data_id]
             shard_idx == mapping.shard_index
             data_index == mapping.data_index
         IN /\ shards' =
                 IF /\ shard_idx \in DOMAIN shards
                    /\ data_index \in Range(shards[shard_idx].data_indices)
                 THEN [shards EXCEPT
                         ![shard_idx].data_indices = ListRemove(@, data_index),
                         ![shard_idx].num_samples = @ - 1,
                         ![shard_idx].updated_at = now("remove_data_from_shard")]
                 ELSE shards
            /\ data_to_shard' = Del(data_to_shard, data_id)
            /\ index_to_data_id' =
                 IF data_index \in DOMAIN index_to_data_id
                 THEN Del(index_to_data_id, data_index)
                 ELSE index_to_data_id
            /\ removed' = removed \cup {<<shard_idx, data_index>>}
            /\ last' = Call("remove_data_from_shard", data_id, data_index,
                            "returned", shard_idx)
            /\ UNCHANGED <<num_shards, random_seed, uuid_count, manager_file>>

\* the state ShardManager.save() dumps with json.dump
ManagerState(k, seed, sh, d2s, i2d) ==
    [written |-> TRUE, num_shards |-> k, random_seed |-> seed,
     shards |-> sh, data_to_shard |-> d2s, index_to_data_id |-> i2d]

\* ShardManager.save()
ShardManager_save ==
    /\ manager_file' = ManagerState(num_shards, random_seed, shards,
                                    data_to_shard, index_to_data_id)
    /\ last' = Call("save", NoId, None, "returned", None)
    /\ UNCHANGED <<num_shards, random_seed, shards, data_to_shard,
                   index_to_data_id, uuid_count, removed>>
    /\ UNCHANGED <<trainer_vars, ext_vars>>

\* ShardInfo(**v) in load (line 245): the fields of the file, then
\* __post_init__ (lines 30-33) keeps a created_at that is not None and
\* stamps updated_at with the time of the load
ShardInfo_load(v) ==
    [v EXCEPT !.updated_at = now("load")]

\* ShardManager.load(filepath): a manager rebuilt from the file
ShardManager_load ==
    /\ manager_file.written
    /\ num_shards' = manager_file.num_shards
    /\ random_seed' = manager_file.random_seed
    /\ shards' = [k \in DOMAIN manager_file.shards |->
                     ShardInfo_load(manager_file.shards[k])]
    /\ data_to_shard' = manager_file.data_to_shard
    /\ index_to_data_id' = manager_file.index_to_data_id
    /\ removed' = {}
    /\ last' = Call("load", NoId, None, "returned", None)
    /\ UNCHANGED <<uuid_count, manager_file>>
    /\ UNCHANGED <<trainer_vars, ext_vars>>

\* the data_ids lists a caller may pass for a dataset
IdLists == UNION {[1..m -> CallerIds] : m \in 0..MaxN}

\* the data ids a removal may name
KnownIds == CallerIds \cup {DefaultId(i) : i \in 0..(MaxN - 1)}

\* manager.create_shards(dataset, data_ids) with len(dataset) = n
CreateShardsCall(n, given, ids) ==
    /\ create_shards(n, given, ids)
    /\ shards' = CreatedShards(n, given, ids)
    /\ last' = Call("create_shards", NoId, n,
                    IF CreateOutcome(n, given, ids) = "built"
                    THEN "returned" ELSE "raised",
                    None)
    /\ UNCHANGED manager_file
    /\ UNCHANGED <<trainer_vars, ext_vars>>

CreateShards ==
    \E n \in 1..MaxN, given \in BOOLEAN, ids \in IdLists :
        /\ given \/ ids = <<>>
        /\ CreateShardsCall(n, given, ids)

RemoveData ==
    /\ \E d \in KnownIds : remove_data_from_shard(d)
    /\ UNCHANGED <<trainer_vars, ext_vars>>

Init ==
    /\ num_shards \in 0..MaxShards
    /\ random_seed \in 0..MaxSeed
    /\ shards = EmptyDict
    /\ data_to_shard = EmptyDict
    /\ index_to_data_id = EmptyDict
    /\ uuid_count = 0
    /\ manager_file = [written |-> FALSE]
    /\ removed = {}
    /\ models = EmptyDict
    /\ heap = EmptyDict
    /\ obj_count = 0
    /\ aggregator = [created |-> FALSE]
    /\ model_files = EmptyDict
    /\ verdict = NoVerdict
    /\ certificates = {}
    /\ engine = NoEngine
    /\ readers = [t \in Readers |-> NoPredict]
    /\ writers = [t \in Writers |-> NoWrite]
    /\ vision_files = EmptyDict
    /\ background = <<>>
    /\ last = Call("init", NoId, None, "returned", None)

\* the ShardManager on its own
Next ==
    \/ CreateShards
    \/ RemoveData
    \/ ShardManager_save
    \/ ShardManager_load

Spec == Init /\ [][Next]_vars

\* building and removing only, without the manager's file
NextSharding ==
    \/ CreateShards
    \/ RemoveData

SpecSharding == Init /\ [][NextSharding]_vars

(***************************************************************************)
(* SISATrainer and ShardAggregator                                         *)
(***************************************************************************)
\* Subset(dataset, indices): the records of the dataset a shard model is
\* trained on
Subset_whole(n, indices) == 0..(n - 1)

Subset(n, indices) == Range(indices)

\* _create_model() followed by the training loop of _train_shard: a new
\* model whose parameters were fitted to the subset and never unlearned
TrainedModel(n, indices) ==
    [trainset |-> Subset(n, indices), steps |-> 0]

\* f"shard_{shard_idx}_{self._trainer_id}.pt"
ModelPath(shard_idx) == "shard_" \o ToString(shard_idx) \o ".pt"

\* a weight is a fraction <<numerator, denominator>> in lowest terms
RECURSIVE GCD(_, _)
GCD(a, b) == IF b = 0 THEN a ELSE GCD(b, a % b)

Fraction(a, b) == IF a = 0 THEN <<0, 1>> ELSE <<a \div GCD(a, b), b \div GCD(a, b)>>

\* sum(weights.values())
RECURSIVE SumValues(_)
SumValues(w) ==
    IF DOMAIN w = {} THEN <<0, 1>>
    ELSE LET k == CHOOSE x \in DOMAIN w : TRUE
             rest == SumValues([x \in (DOMAIN w) \ {k} |-> w[x]])
         IN Fraction(w[k][1] * rest[2] + rest[1] * w[k][2], w[k][2] * rest[2])

\* v / total
Divide(v, total) == Fraction(v[1] * total[2], v[2] * total[1])

\* ShardAggregator(models, aggregation_method, weights), lines 36-42:
\* self.models is the caller's dict itself (aliased; own is the content of
\* a dict of the aggregator's own, which this constructor never makes);
\* without weights every shard gets 1.0 / len(models)
ShardAggregator_init_copy(ms, aggregation_method, given, weights) ==
    [created |-> TRUE, aggregation_method |-> aggregation_method,
     weights |-> IF given THEN weights
                 ELSE [idx \in DOMAIN ms |-> Fraction(1, Cardinality(DOMAIN ms))],
     aliased |-> FALSE, own |-> ms]

ShardAggregator_init(ms, aggregation_method, given, weights) ==
    [created |-> TRUE, aggregation_method |-> aggregation_method,
     weights |-> IF given THEN weights
                 ELSE [idx \in DOMAIN ms |-> Fraction(1, Cardinality(DOMAIN ms))],
     aliased |-> TRUE, own |-> EmptyDict]

\* ShardAggregator(models=self.models, aggregation_method="mean")
ShardAggregator(ms) == ShardAggregator_init(ms, "mean", FALSE, EmptyDict)

\* aggregator.models when the caller's dict holds ms
aggregator_models(agg, ms) == IF agg.aliased THEN ms ELSE agg.own

\* the caller's dict and the aggregator once aggregator.models holds new
CallerDictAfter(agg, ms, new) == IF agg.aliased THEN new ELSE ms

AggregatorAfter(agg, new, weights) ==
    [agg EXCEPT !.own = IF agg.aliased THEN @ ELSE new, !.weights = weights]

\* the objects still referenced (by the models dict, an engine or a call in
\* flight); the others are reclaimed
Reclaim(h, ms) == [o \in (DOMAIN h) \cap (Range(ms) \cup Held) |-> h[o]]

\* the first shard whose section is empty (its DataLoader cannot be built),
\* or k when every section has records
FirstEmpty(sh, k) ==
    IF \E s \in 0..(k - 1) : sh[s].data_indices = <<>>
    THEN CHOOSE s \in 0..(k - 1) :
            /\ sh[s].data_indices = <<>>
            /\ \A t \in 0..(s - 1) : sh[t].data_indices # <<>>
    ELSE k

\* SISATrainer.train(dataset, data_ids) with len(dataset) = n
train(n, given, ids) ==
    LET built == CreateOutcome(n, given, ids) = "built"
        sh1 == CreatedShards(n, given, ids)
        trained == IF built THEN 0..(FirstEmpty(sh1, num_shards) - 1) ELSE {}
        complete == built /\ FirstEmpty(sh1, num_shards) = num_shards
        newModels == [s \in (DOMAIN models) \cup trained |->
                        IF s \in trained THEN obj_count + s ELSE models[s]]
        newHeap == [o \in (DOMAIN heap) \cup {obj_count + s : s \in trained} |->
                        IF o \in DOMAIN heap THEN heap[o]
                        ELSE TrainedModel(n, sh1[o - obj_count].data_indices)]
    IN /\ built => obj_count + num_shards <= MaxObjects
       /\ create_shards(n, given, ids)
       /\ shards' = [s \in DOMAIN sh1 |->
                        IF s \in trained
                        THEN [sh1[s] EXCEPT !.model_path = ModelPath(s),
                                            !.updated_at = now("set_model_path")]
                        ELSE sh1[s]]
       /\ models' = newModels
       /\ heap' = Reclaim(newHeap, newModels)
       /\ obj_count' = obj_count + Cardinality(trained)
       /\ model_files' = [s \in (DOMAIN model_files) \cup trained |->
                            IF s \in trained THEN newHeap[obj_count + s]
                            ELSE model_files[s]]
       /\ aggregator' = IF complete THEN ShardAggregator(newModels) ELSE aggregator
       /\ manager_file' =
            IF complete
            THEN ManagerState(num_shards, random_seed, shards',
                              data_to_shard', index_to_data_id')
            ELSE manager_file
       /\ last' = Call("train", NoId, n,
                       IF complete THEN "returned" ELSE "raised", None)

\* ShardAggregator.update_model(shard_idx, model) on the dict the aggregator
\* shares with the trainer
update_model(ms, shard_idx, obj) == Put(ms, shard_idx, obj)

\* SISATrainer.retrain_shard(shard_idx, dataset) with len(dataset) = n
retrain_shard_unguarded(shard_idx, n) ==
    LET indices == get_data_indices_for_shard(shards, shard_idx)
        stored == Put(models, shard_idx, obj_count)
        updated == update_model(aggregator_models(aggregator, stored),
                                shard_idx, stored[shard_idx])
        published == IF aggregator.created
                     THEN CallerDictAfter(aggregator, stored, updated)
                     ELSE stored
    IN IF \E i \in Range(indices) : i >= n
       THEN \* the subset indexes past the dataset: IndexError in the loop
            /\ last' = Call("retrain_shard", NoId, shard_idx, "raised", None)
            /\ UNCHANGED <<mgr_vars, trainer_vars>>
       ELSE /\ obj_count < MaxObjects
            /\ models' = published
            /\ heap' = Reclaim(Put(heap, obj_count, TrainedModel(n, indices)), published)
            /\ obj_count' = obj_count + 1
            /\ model_files' = Put(model_files, shard_idx, TrainedModel(n, indices))
            /\ shards' = set_model_path(shards, shard_idx, ModelPath(shard_idx))
            /\ last' = Call("retrain_shard", NoId, shard_idx, "returned", obj_count)
            /\ aggregator' = IF aggregator.created
                             THEN AggregatorAfter(aggregator, updated,
                                                  aggregator.weights)
                             ELSE aggregator
            /\ UNCHANGED <<num_shards, random_seed, data_to_shard, index_to_data_id,
                           uuid_count, manager_file, removed>>

retrain_shard(shard_idx, n) ==
    LET indices == get_data_indices_for_shard(shards, shard_idx)
        stored == Put(models, shard_idx, obj_count)
        updated == update_model(aggregator_models(aggregator, stored),
                                shard_idx, stored[shard_idx])
        published == IF aggregator.created
                     THEN CallerDictAfter(aggregator, stored, updated)
                     ELSE stored
    IN IF Len(indices) = 0
       THEN \* line 260: return {"shard_idx": shard_idx, "status": "empty"}
            /\ last' = Call("retrain_shard", NoId, shard_idx, "empty", None)
            /\ UNCHANGED <<mgr_vars, trainer_vars>>
       ELSE IF \E i \in Range(indices) : i >= n
       THEN \* the subset indexes past the dataset: IndexError in the loop
            /\ last' = Call("retrain_shard", NoId, shard_idx, "raised", None)
            /\ UNCHANGED <<mgr_vars, trainer_vars>>
       ELSE /\ obj_count < MaxObjects
            /\ models' = published
            /\ heap' = Reclaim(Put(heap, obj_count, TrainedModel(n, indices)), published)
            /\ obj_count' = obj_count + 1
            /\ model_files' = Put(model_files, shard_idx, TrainedModel(n, indices))
            /\ shards' = set_model_path(shards, shard_idx, ModelPath(shard_idx))
            /\ last' = Call("retrain_shard", NoId, shard_idx, "returned", obj_count)
            /\ aggregator' = IF aggregator.created
                             THEN AggregatorAfter(aggregator, updated,
                                                  aggregator.weights)
                             ELSE aggregator
            /\ UNCHANGED <<num_shards, random_seed, data_to_shard, index_to_data_id,
                           uuid_count, manager_file, removed>>

\* SISATrainer.save_shard_checkpoint(shard_idx, model)
save_shard_checkpoint(shard_idx, obj) ==
    /\ model_files' = Put(model_files, shard_idx, heap[obj])
    /\ models' = Put(models, shard_idx, obj)
    /\ heap' = Reclaim(heap, models')
    /\ shards' = set_model_path(shards, shard_idx, ModelPath(shard_idx))
    /\ last' = Call("save_shard_checkpoint", NoId, shard_idx, "returned", None)
    /\ UNCHANGED <<num_shards, random_seed, data_to_shard, index_to_data_id,
                   uuid_count, manager_file, removed, obj_count, aggregator>>

Train ==
    /\ \E n \in 1..MaxN, given \in BOOLEAN, ids \in IdLists :
          /\ given \/ ids = <<>>
          /\ train(n, given, ids)
    /\ UNCHANGED ext_vars

\* trainer.train(dataset) with the default data_ids
TrainDefaultIds ==
    /\ \E n \in 1..MaxN : train(n, FALSE, <<>>)
    /\ UNCHANGED ext_vars

RetrainShard ==
    /\ \E shard_idx \in 0..(MaxShards - 1), n \in 1..MaxN :
          retrain_shard(shard_idx, n)
    /\ UNCHANGED ext_vars

SaveShardCheckpoint ==
    /\ \E shard_idx \in 0..(MaxShards - 1), obj \in DOMAIN heap :
          save_shard_checkpoint(shard_idx, obj)
    /\ UNCHANGED ext_vars

\* what a model.save / torch.save that raised leaves at the path: the file
\* as it was, or a part of the new one
Partial == [trainset |-> {}, steps |-> None]

FileAfterFailedSave(files, shard_idx, torn) ==
    IF torn THEN Put(files, shard_idx, Partial) ELSE files

\* SISATrainer.train(dataset) when the save of lines 211-216 raises for
\* shard k: the shards before k are trained and registered, nothing after
\* line 216 runs for k, and the exception leaves train
train_unsaved(n, k, torn) ==
    LET sh1 == CreatedShards(n, FALSE, <<>>)
        trained == 0..(k - 1)
        newModels == [s \in (DOMAIN models) \cup trained |->
                        IF s \in trained THEN obj_count + s ELSE models[s]]
        newHeap == [o \in (DOMAIN heap) \cup {obj_count + s : s \in trained} |->
                        IF o \in DOMAIN heap THEN heap[o]
                        ELSE TrainedModel(n, sh1[o - obj_count].data_indices)]
    IN /\ CreateOutcome(n, FALSE, <<>>) = "built"
       /\ k < FirstEmpty(sh1, num_shards)
       /\ obj_count + k + 1 <= MaxObjects
       /\ create_shards(n, FALSE, <<>>)
       /\ shards' = [s \in DOMAIN sh1 |->
                        IF s \in trained
                        THEN [sh1[s] EXCEPT !.model_path = ModelPath(s),
                                            !.updated_at = now("set_model_path")]
                        ELSE sh1[s]]
       /\ models' = newModels
       /\ heap' = Reclaim(newHeap, newModels)
       /\ obj_count' = obj_count + k + 1
       /\ model_files' =
            FileAfterFailedSave([s \in (DOMAIN model_files) \cup trained |->
                                    IF s \in trained THEN newHeap[obj_count + s]
                                    ELSE model_files[s]], k, torn)
       /\ last' = Call("train", NoId, n, "raised", k)
       /\ UNCHANGED <<aggregator, manager_file>>

\* SISATrainer.retrain_shard(shard_idx, dataset) when the save of lines
\* 211-216 raises: lines 219-220 and 278-279 do not run
retrain_shard_unsaved(shard_idx, n, torn) ==
    LET indices == get_data_indices_for_shard(shards, shard_idx)
    IN /\ Len(indices) > 0
       /\ \A i \in Range(indices) : i < n
       /\ obj_count < MaxObjects
       /\ obj_count' = obj_count + 1
       /\ model_files' = FileAfterFailedSave(model_files, shard_idx, torn)
       /\ last' = Call("retrain_shard", NoId, shard_idx, "raised", None)
       /\ UNCHANGED <<mgr_vars, models, heap, aggregator>>

\* SISATrainer.save_shard_checkpoint(shard_idx, model) when the save of
\* lines 294-297 raises: lines 300-303 do not run
save_shard_checkpoint_unsaved(shard_idx, obj, torn) ==
    /\ model_files' = FileAfterFailedSave(model_files, shard_idx, torn)
    /\ last' = Call("save_shard_checkpoint", NoId, shard_idx, "raised", None)
    /\ UNCHANGED <<mgr_vars, models, heap, obj_count, aggregator>>

\* a call whose model file cannot be written (disk full, path missing)
TrainUnsaved ==
    /\ \E n \in 1..MaxN, k \in 0..(MaxShards - 1), torn \in BOOLEAN :
          train_unsaved(n, k, torn)
    /\ UNCHANGED ext_vars

RetrainShardUnsaved ==
    /\ \E shard_idx \in 0..(MaxShards - 1), n \in 1..MaxN, torn \in BOOLEAN :
          retrain_shard_unsaved(shard_idx, n, torn)
    /\ UNCHANGED ext_vars

SaveShardCheckpointUnsaved ==
    /\ \E shard_idx \in 0..(MaxShards - 1), obj \in DOMAIN heap,
          torn \in BOOLEAN :
          save_shard_checkpoint_unsaved(shard_idx, obj, torn)
    /\ UNCHANGED ext_vars

\* the trainer and its shard manager, one call at a time
NextTrainer ==
    \/ Train
    \/ RemoveData
    \/ RetrainShard
    \/ SaveShardCheckpoint

SpecTrainer == Init /\ [][NextTrainer]_vars

\* the trainer on a storage whose writes may fail
NextStorage ==
    \/ TrainDefaultIds
    \/ RetrainShard
    \/ SaveShardCheckpoint
    \/ TrainUnsaved
    \/ RetrainShardUnsaved
    \/ SaveShardCheckpointUnsaved

SpecStorage == Init /\ [][NextStorage]_vars

\* training with the default data_ids, removals and retraining
NextRetrain ==
    \/ TrainDefaultIds
    \/ RemoveData
    \/ RetrainShard

SpecRetrain == Init /\ [][NextRetrain]_vars

\* training with the default data_ids, removals, and the manager saved to
\* its file and loaded back
NextPersist ==
    \/ TrainDefaultIds
    \/ RemoveData
    \/ ShardManager_save
    \/ ShardManager_load

SpecPersist == Init /\ [][NextPersist]_vars

(***************************************************************************)
(* Verification: MembershipInference.attack, verify_erasure,               *)
(* UnlearningEngine._verify_unlearning, the POST /verify route and the     *)
(* CertificateGenerator.  Confidences are percentages; a mean and an       *)
(* accuracy are kept as <<numerator, denominator>>.                        *)
(***************************************************************************)
UtilityFloor == 85          \* retain_results["accuracy"] > 0.85
DefaultThreshold == 60      \* threshold: float = 0.6
VisionThreshold == 50       \* verify_vision_model(..., threshold: float = 0.5)
TestThreshold == 90         \* verify_erasure(model, x_data, y_data, threshold=0.9)

Thresholds == {VisionThreshold, DefaultThreshold, TestThreshold}

\* what a model answers on one record: its confidence in the true class
\* and whether its prediction is correct
Samples == {[conf |-> 20, correct |-> FALSE], [conf |-> 90, correct |-> TRUE]}

\* the answers of a model on a DataLoader of m records
Measurements(m) == [1..m -> Samples]

\* a / b < t for a sum a of percentages and a percentage t
Less_or_equal(ratio, t) == ratio[1] <= t * ratio[2]

Less(ratio, t) == ratio[1] < t * ratio[2]

\* correct / total if total > 0 else 0, compared with floor / 100
Greater(ratio, floor) ==
    IF ratio[2] > 0 THEN ratio[1] * 100 > floor * ratio[2] ELSE 0 > floor

\* MembershipInference.attack(dataloader): np.max of no confidences raises
\* ValueError
attack_raises(samples) == samples = <<>>

attack(samples) ==
    [mean_confidence |->
        <<SumOver(DOMAIN samples, [i \in DOMAIN samples |-> samples[i].conf]),
          Len(samples)>>,
     accuracy |->
        <<Cardinality({i \in DOMAIN samples : samples[i].correct}), Len(samples)>>,
     num_samples |-> Len(samples)]

\* verify_erasure(model, x_data, y_data, threshold): the dict it returns
verify_erasure(samples, threshold) ==
    LET results == attack(samples)
    IN [mean_confidence |-> results.mean_confidence,
        accuracy |-> results.accuracy,
        threshold |-> threshold,
        is_erased |-> Less(results.mean_confidence, threshold),
        num_samples |-> results.num_samples]

\* UnlearningEngine._verify_unlearning(forget_data, retain_data): the dict it
\* returns
_verify_unlearning(forget, retain, threshold) ==
    LET forget_results == attack(forget)
        retain_results == attack(retain)
    IN [forget_confidence |-> forget_results.mean_confidence,
        forget_accuracy |-> forget_results.accuracy,
        retain_confidence |-> retain_results.mean_confidence,
        retain_accuracy |-> retain_results.accuracy,
        success |-> /\ Less(forget_results.mean_confidence, threshold)
                    /\ Greater(retain_results.accuracy, UtilityFloor)]

\* the verification an entry point produced, with the two conditions as
\* they stand for the model it was run on: its mean confidence on the forget
\* records is below the threshold, its accuracy on the retained records is
\* above the floor (whether or not the entry point measured them)
Verdict(entry, raised, threshold, forget, retain, positive) ==
    [entry |-> entry, raised |-> raised,
     forget_below |-> forget # <<>> /\ Less(attack(forget).mean_confidence, threshold),
     retain_above |-> Greater(attack(retain).accuracy, UtilityFloor),
     positive |-> positive]

\* dict.get(key, default)
Get(d, key, default) == IF key \in DOMAIN d THEN d[key] ELSE default

\* Python binds the keyword arguments of a call when each names a parameter
\* and every parameter without a default is given; otherwise TypeError
Binds(kwargs, params, required) ==
    /\ kwargs \subseteq params
    /\ required \subseteq kwargs

\* def verify_erasure(model, x_data, y_data, threshold=0.6, device="auto")
verify_erasure_params == {"model", "x_data", "y_data", "threshold", "device"}

verify_erasure_required == {"model", "x_data", "y_data"}

\* def generate_certificate(model_id, data_ids, verification_results,
\*                          model_hash=None, output_dir="./certificates")
generate_certificate_params ==
    {"model_id", "data_ids", "verification_results", "model_hash", "output_dir"}

generate_certificate_required == {"model_id", "data_ids", "verification_results"}

\* the keywords verify_model passes to verify_erasure and generate_certificate
verify_model_kwargs ==
    [verify_erasure |-> {"model", "x_target", "y_target", "threshold"},
     generate_certificate |-> {"job_id", "confidence_score", "is_compliant"}]

\* the methods of SISATrainer
SISATrainer_methods ==
    {"train", "predict", "retrain_shard", "get_model_for_shard",
     "save_shard_checkpoint", "save", "load"}

\* SISATrainer.get_model_for_shard(shard_idx): self.models.get(shard_idx)
get_model_for_shard(ms, shard_idx) ==
    IF shard_idx \in DOMAIN ms THEN ms[shard_idx] ELSE None

\* CertificateGenerator.generate(model_id, data_ids, verification_results):
\* the certificate it writes, whatever the results say
generate(entry, verification_results) ==
    [entry |-> entry,
     success |-> Get(verification_results, "success", FALSE)]

\* how verify_erasure(model, x_data, y_data, threshold) ends on a model that
\* answers forget on the data passed: the ValueError of np.max on no
\* confidence (attack, line 110), or the dict of lines 229-237
VerifyErasureOutcome(forget, threshold) ==
    IF attack_raises(forget)
    THEN Call("verify_erasure", NoId, Len(forget), "raised", "ValueError")
    ELSE Call("verify_erasure", NoId, Len(forget), "returned",
              verify_erasure(forget, threshold))

\* verify_erasure(model, x_data, y_data, threshold) on a model that answers
\* forget on the data passed and retain on the records it keeps
VerifyErasureCall(forget, retain, threshold) ==
    /\ DOMAIN heap # {}
    /\ verdict' =
          Verdict("verify_erasure", attack_raises(forget), threshold,
                  forget, retain,
                  ~attack_raises(forget)
                      /\ verify_erasure(forget, threshold).is_erased)
    /\ last' = VerifyErasureOutcome(forget, threshold)
    /\ UNCHANGED <<mgr_vars, trainer_vars, certificates, engine, conc_vars,
                   task_vars>>

\* a direct call of verify_erasure on a model
VerifyErasure ==
    \E f \in 0..MaxSamples, r \in 0..MaxSamples, threshold \in Thresholds :
       \E forget \in Measurements(f), retain \in Measurements(r) :
          VerifyErasureCall(forget, retain, threshold)

\* engine._verify_unlearning(forget_data, retain_data) on an engine that is
\* not unlearning
VerifyUnlearning ==
    /\ engine.created
    /\ engine.pc \in {"idle", "done", "raised"}
    /\ \E f \in 0..MaxSamples, r \in 0..MaxSamples :
       \E forget \in Measurements(f), retain \in Measurements(r) :
          LET raises == attack_raises(forget) \/ attack_raises(retain)
          IN /\ verdict' =
                   Verdict("_verify_unlearning", raises,
                           engine.verification_threshold, forget, retain,
                           ~raises /\ _verify_unlearning(forget, retain,
                                         engine.verification_threshold).success)
             /\ last' = Call("_verify_unlearning", NoId, f,
                             IF raises THEN "raised" ELSE "returned", None)
    /\ UNCHANGED <<mgr_vars, trainer_vars, certificates, engine, conc_vars,
                   task_vars>>

\* POST /verify: verify_model(req) with req.shard_id = shard_id,
\* len(req.data_indices) = Len(samples), req.target_confidence_threshold
\* = threshold; samples is what the model answers on the mock forget set
verify_model(shard_id, samples, threshold) ==
    LET model == get_model_for_shard(models, shard_id)
        result == verify_erasure(samples, threshold)
        failed(code) ==
            /\ last' = Call("verify_model", NoId, shard_id, "raised", code)
            /\ verdict' = Verdict("verify_model", TRUE, threshold, samples,
                                  <<>>, FALSE)
            /\ UNCHANGED certificates
    IN IF model = None
       THEN \* line 23: trainer.load_shard raises AttributeError, caught at
            \* line 24 and turned into HTTPException(404)
            /\ "load_shard" \notin SISATrainer_methods
            /\ last' = Call("verify_model", NoId, shard_id, "raised", 404)
            /\ UNCHANGED <<verdict, certificates>>
       ELSE IF ~Binds(verify_model_kwargs.verify_erasure,
                      verify_erasure_params, verify_erasure_required)
       THEN failed(500)         \* line 36: TypeError
       ELSE IF attack_raises(samples)
       THEN failed(500)         \* ValueError out of attack
       ELSE IF "confidence" \notin DOMAIN result
       THEN failed(500)         \* lines 48, 55: KeyError
       ELSE IF /\ result.is_erased
               /\ ~Binds(verify_model_kwargs.generate_certificate,
                         generate_certificate_params,
                         generate_certificate_required)
       THEN failed(500)         \* line 46: TypeError
       ELSE /\ last' = Call("verify_model", NoId, shard_id, "returned", 200)
            /\ verdict' = Verdict("verify_model", FALSE, threshold, samples,
                                  <<>>, result.is_erased)
            /\ certificates' =
                 IF result.is_erased
                 THEN certificates \cup {generate("verify_model", result)}
                 ELSE certificates

VerifyModel ==
    /\ \E shard_id \in 0..(MaxShards - 1), m \in 1..MaxSamples,
          threshold \in Thresholds :
       \E samples \in Measurements(m) :
          verify_model(shard_id, samples, threshold)
    /\ UNCHANGED <<mgr_vars, trainer_vars, engine, conc_vars, task_vars>>

\* CertificateGenerator(...).generate(model_id, data_ids, results) on the
\* results of the last verification that returned
GenerateCertificate ==
    /\ verdict.entry \in {"verify_erasure", "_verify_unlearning"}
    /\ ~verdict.raised
    /\ certificates' = certificates \cup
          {generate(verdict.entry,
                    IF verdict.entry = "_verify_unlearning"
                    THEN [success |-> verdict.positive]
                    ELSE [is_erased |-> verdict.positive])}
    /\ last' = Call("generate", NoId, None, "returned", None)
    /\ UNCHANGED <<mgr_vars, trainer_vars, verdict, engine, conc_vars,
                   task_vars>>

(***************************************************************************)
(* UnlearningEngine (core/unlearning/gradient_ascent.py).  The parameters  *)
(* of a model are its training set and the number of optimizer steps an    *)
(* engine has applied to it in place.                                      *)
(***************************************************************************)
DefaultBatchSize == 32      \* UnlearningConfig.batch_size

BatchSizes == {1, DefaultBatchSize}

\* len(DataLoader(data, batch_size)): the number of batches
NumBatches(size, batch_size) == (size + batch_size - 1) \div batch_size

\* optimizer.step(): the parameters after one more update in place
Step(params) == [params EXCEPT !.steps = Min(@ + 1, MaxSteps)]

\* range(self.config.epochs)
epoch_range_short(epochs) == 0..(epochs - 2)

epoch_range(epochs) == 0..(epochs - 1)

\* the phases an unlearn call logs
Phase(p) == [phase |-> p, epoch |-> 0]

Training(e) == [phase |-> "Training", epoch |-> e]

\* UnlearningEngine(model, config): original_model is a deep copy, model is
\* the caller's object itself
UnlearningEngine(h, obj, use_fisher, epochs, batch_size) ==
    [created |-> TRUE, model |-> obj, original_model |-> h[obj],
     use_fisher |-> use_fisher, epochs |-> epochs, batch_size |-> batch_size,
     verification_threshold |-> DefaultThreshold,
     fisher_diagonal |-> "None",
     pc |-> "idle", forget_size |-> 0, retain_size |-> 0, epoch |-> 0,
     batches_left |-> 0, retain_left |-> 0, num_batches |-> 0,
     history |-> <<>>, trace |-> <<>>,
     start |-> h[obj], result |-> [returned |-> FALSE]]

\* an unlearn call is in progress
Unlearning == engine.created /\ engine.pc \notin {"idle", "done", "raised"}

\* what every step of the engine leaves alone
EngineFrame ==
    UNCHANGED <<mgr_vars, models, aggregator, model_files, verify_vars,
                conc_vars, task_vars>>

\* engine = UnlearningEngine(model, config) on a model the caller built and
\* trained itself
NewEngine ==
    /\ ~Unlearning
    /\ obj_count < MaxObjects
    /\ \E use_fisher \in BOOLEAN, epochs \in 0..MaxEpochs,
          batch_size \in BatchSizes :
          LET h == Put(heap, obj_count, [trainset |-> {}, steps |-> 0])
          IN /\ engine' = UnlearningEngine(h, obj_count, use_fisher, epochs,
                                           batch_size)
             /\ heap' = [o \in (DOMAIN h) \cap
                                (Range(models) \cup {obj_count} \cup HeldByCalls) |->
                            h[o]]
    /\ obj_count' = obj_count + 1
    /\ last' = Call("UnlearningEngine", NoId, None, "returned", obj_count)
    /\ EngineFrame

\* engine.unlearn(forget_data, retain_data), line 103: the call begins
UnlearnBegin ==
    /\ engine.created
    /\ ~Unlearning
    /\ \E f \in 0..MaxSamples, r \in 0..MaxSamples :
          engine' = [engine EXCEPT
                        !.pc = "fisher", !.forget_size = f, !.retain_size = r,
                        !.epoch = 0, !.batches_left = 0, !.retain_left = 0,
                        !.num_batches = 0, !.history = <<>>,
                        !.trace = <<Phase("Initialized")>>,
                        !.start = heap[engine.model],
                        !.result = [returned |-> FALSE]]
    /\ last' = Call("unlearn", NoId, None, "called", None)
    /\ UNCHANGED <<heap, obj_count>>
    /\ EngineFrame

\* lines 108-113: Fisher information on the retain set, when enabled
UnlearnFisher ==
    /\ engine.created
    /\ engine.pc = "fisher"
    /\ engine' =
          IF engine.use_fisher
          THEN [engine EXCEPT !.pc = "prepare",
                              !.fisher_diagonal = "computed",
                              !.trace = Append(@, Phase("FisherComputed"))]
          ELSE [engine EXCEPT !.pc = "prepare"]
    /\ UNCHANGED <<heap, obj_count, last>>
    /\ EngineFrame

\* lines 116-146: loaders, optimizer, and next(iter(forget_loader)), which
\* raises StopIteration on an empty forget set
UnlearnPrepare ==
    /\ engine.created
    /\ engine.pc = "prepare"
    /\ IF NumBatches(engine.forget_size, engine.batch_size) = 0
       THEN /\ engine' = [engine EXCEPT !.pc = "raised"]
            /\ last' = Call("unlearn", NoId, None, "raised", "StopIteration")
       ELSE /\ engine' = [engine EXCEPT !.pc = "epoch", !.epoch = 0]
            /\ UNCHANGED last
    /\ UNCHANGED <<heap, obj_count>>
    /\ EngineFrame

\* lines 150-160: for epoch in range(self.config.epochs); num_batches = 0,
\* forget_iter = iter(forget_loader), retain_iter = iter(retain_loader)
UnlearnEpoch ==
    /\ engine.created
    /\ engine.pc = "epoch"
    /\ engine' =
          IF engine.epoch \in epoch_range(engine.epochs)
          THEN [engine EXCEPT
                  !.pc = "batch",
                  !.batches_left = NumBatches(engine.forget_size, engine.batch_size),
                  !.retain_left = NumBatches(engine.retain_size, engine.batch_size),
                  !.num_batches = 0,
                  !.trace = Append(@, Training(engine.epoch + 1))]
          ELSE [engine EXCEPT !.pc = "verify"]
    /\ UNCHANGED <<heap, obj_count, last>>
    /\ EngineFrame

\* lines 167-171: next(retain_iter) on an iterator with `left` batches of a
\* loader of `total` batches: an exhausted iterator is replaced by a new
\* iter(retain_loader) once, and the next() inside the handler raises
\* StopIteration (None) when the loader has no batch.  The value is the
\* number of batches left after the one taken
next_retain_once(left, total) ==
    IF left > 0 THEN left - 1 ELSE None

next_retain(left, total) ==
    IF left > 0 THEN left - 1
    ELSE IF total > 0 THEN total - 1 ELSE None

\* lines 162-240: one forget batch and one retain batch; a StopIteration of
\* the restarted retain iterator leaves unlearn; optimizer.step() updates
\* the parameters of self.model in place and num_batches counts the step
UnlearnBatch ==
    /\ engine.created
    /\ engine.pc = "batch"
    /\ engine.batches_left > 0
    /\ IF next_retain(engine.retain_left,
                      NumBatches(engine.retain_size, engine.batch_size)) = None
       THEN /\ engine' = [engine EXCEPT !.pc = "raised"]
            /\ last' = Call("unlearn", NoId, None, "raised", "StopIteration")
            /\ UNCHANGED heap
       ELSE /\ engine' = [engine EXCEPT
                            !.batches_left = @ - 1,
                            !.retain_left =
                                next_retain(@, NumBatches(engine.retain_size,
                                                          engine.batch_size)),
                            !.num_batches = @ + 1]
            /\ heap' = [heap EXCEPT ![engine.model] = Step(@)]
            /\ UNCHANGED last
    /\ UNCHANGED obj_count
    /\ EngineFrame

\* lines 165-166, 243-262: the forget loader is exhausted; the epoch's
\* averages are appended to the history
UnlearnEpochEnd ==
    /\ engine.created
    /\ engine.pc = "batch"
    /\ engine.batches_left = 0
    /\ engine' = [engine EXCEPT
                    !.pc = "epoch",
                    !.epoch = @ + 1,
                    !.history = Append(@,
                        [epoch |-> engine.epoch + 1,
                         num_batches |-> engine.num_batches])]
    /\ UNCHANGED <<heap, obj_count, last>>
    /\ EngineFrame

\* line 267: verification = self._verify_unlearning(forget_data, retain_data)
UnlearnVerify ==
    /\ engine.created
    /\ engine.pc = "verify"
    /\ \E forget \in Measurements(engine.forget_size),
          retain \in Measurements(engine.retain_size) :
          LET raises == attack_raises(forget) \/ attack_raises(retain)
              verification == _verify_unlearning(forget, retain,
                                                 engine.verification_threshold)
          IN IF raises
             THEN /\ engine' = [engine EXCEPT !.pc = "raised"]
                  /\ last' = Call("unlearn", NoId, None, "raised", "ValueError")
             ELSE /\ engine' = [engine EXCEPT
                                  !.pc = "return",
                                  !.trace = Append(@, Phase("Verified")),
                                  !.result = [returned |-> FALSE,
                                              verification |-> verification]]
                  /\ UNCHANGED last
    /\ UNCHANGED <<heap, obj_count>>
    /\ EngineFrame

\* lines 269-273: return {"history", "verification", "config"}
UnlearnReturn ==
    /\ engine.created
    /\ engine.pc = "return"
    /\ engine' = [engine EXCEPT
                    !.pc = "done",
                    !.trace = Append(@, Phase("Done")),
                    !.result = [returned |-> TRUE,
                                history |-> engine.history,
                                verification |-> engine.result.verification]]
    /\ last' = Call("unlearn", NoId, None, "returned", None)
    /\ UNCHANGED <<heap, obj_count>>
    /\ EngineFrame

\* the run is interrupted inside the training loop (the exception leaves
\* unlearn; nothing is restored)
UnlearnInterrupted ==
    /\ engine.created
    /\ engine.pc = "batch"
    /\ engine' = [engine EXCEPT !.pc = "raised"]
    /\ last' = Call("unlearn", NoId, None, "raised", "Interrupted")
    /\ UNCHANGED <<heap, obj_count>>
    /\ EngineFrame

NextEngine ==
    \/ NewEngine
    \/ UnlearnBegin
    \/ UnlearnFisher
    \/ UnlearnPrepare
    \/ UnlearnEpoch
    \/ UnlearnBatch
    \/ UnlearnEpochEnd
    \/ UnlearnVerify
    \/ UnlearnReturn
    \/ UnlearnInterrupted

\* one engine on a model of the caller, one call at a time
NextUnlearn == NextEngine

SpecUnlearn == Init /\ [][NextUnlearn]_vars

\* the entry points that report a verdict, on a model of the caller
NextVerify ==
    \/ NewEngine
    \/ VerifyErasure
    \/ VerifyUnlearning

SpecVerify == Init /\ [][NextVerify]_vars

\* verify_erasure on the models of a trained trainer
NextErasure ==
    \/ TrainDefaultIds
    \/ VerifyErasure

SpecErasure == Init /\ [][NextErasure]_vars

\* the trainer, the POST /verify route and the certificates
NextCertify ==
    \/ TrainDefaultIds
    \/ VerifyErasure
    \/ VerifyModel
    \/ GenerateCertificate

SpecCertify == Init /\ [][NextCertify]_vars

(***************************************************************************)
(* Calls on one SISATrainer from several threads.  The trainer holds no    *)
(* lock, so a call is a sequence of steps that the steps of other calls    *)
(* may come between: retrain_shard and save_shard_checkpoint in the        *)
(* threads Writers, predict in the threads Readers, and an unlearning      *)
(* engine working on the model object of a shard.                          *)
(***************************************************************************)

\* the objects still referenced once the dict, the engine and the calls in
\* flight are ms, eng, rd and wr
Collect(h, ms, eng, rd, wr) ==
    [o \in (DOMAIN h) \cap
           (Range(ms) \cup (IF eng.created THEN {eng.model} ELSE {})
                      \cup HeldBy(rd, wr)) |-> h[o]]

\* the calls that have yet to instantiate their model
Instantiating == {t \in Writers : writers[t].pc = "train"}

\* what a step of a writer that touches no model leaves alone
WriterFrame ==
    UNCHANGED <<num_shards, random_seed, data_to_shard, index_to_data_id,
                uuid_count, manager_file, removed, aggregator, verify_vars,
                engine, readers, task_vars>>

\* retrain_shard(shard_idx, dataset) in thread t, lines 256-263: the
\* remaining indices are read; an empty shard returns {"status": "empty"}
\* at once
RetrainRead(t, shard_idx, n) ==
    LET indices == get_data_indices_for_shard(shards, shard_idx)
    IN /\ writers[t].op = "none"
       /\ IF Len(indices) = 0
          THEN /\ last' = Call("retrain_shard", NoId, shard_idx, "empty", None)
               /\ UNCHANGED writers
          ELSE /\ writers' = [writers EXCEPT ![t] =
                                 [op |-> "retrain_shard", pc |-> "train",
                                  shard_idx |-> shard_idx, n |-> n,
                                  indices |-> indices, obj |-> None]]
               /\ UNCHANGED last
       /\ UNCHANGED <<shards, models, heap, obj_count, model_files>>
       /\ WriterFrame

RetrainBegin(t) ==
    /\ obj_count + Cardinality(Instantiating) < MaxObjects
    /\ \E shard_idx \in 0..(MaxShards - 1), n \in 1..MaxN :
          RetrainRead(t, shard_idx, n)

\* _train_shard, lines 166-209: a new model is created and fitted to the
\* subset; an index past the dataset raises IndexError in the loop
RetrainTrain(t) ==
    /\ writers[t].op = "retrain_shard"
    /\ writers[t].pc = "train"
    /\ IF \E i \in Range(writers[t].indices) : i >= writers[t].n
       THEN /\ writers' = [writers EXCEPT ![t] = NoWrite]
            /\ last' = Call("retrain_shard", NoId, writers[t].shard_idx,
                            "raised", None)
            /\ UNCHANGED <<heap, obj_count>>
       ELSE /\ writers' = [writers EXCEPT ![t].pc = "save",
                                          ![t].obj = obj_count]
            /\ heap' = Put(heap, obj_count,
                           TrainedModel(writers[t].n, writers[t].indices))
            /\ obj_count' = obj_count + 1
            /\ UNCHANGED last
    /\ UNCHANGED <<shards, models, model_files>>
    /\ WriterFrame

\* _train_shard, lines 211-216: the model file of the shard is written
RetrainSave(t) ==
    /\ writers[t].op = "retrain_shard"
    /\ writers[t].pc = "save"
    /\ model_files' = Put(model_files, writers[t].shard_idx,
                          heap[writers[t].obj])
    /\ writers' = [writers EXCEPT ![t].pc = "store"]
    /\ UNCHANGED <<shards, models, heap, obj_count, last>>
    /\ WriterFrame

\* _train_shard, lines 219-220: self.models[shard_idx] = model and
\* set_model_path
RetrainStore_shared(t) ==
    /\ writers[t].op = "retrain_shard"
    /\ writers[t].pc = "store"
    /\ models' = [s \in (DOMAIN models) \cup {writers[t].shard_idx} |->
                    writers[t].obj]
    /\ shards' = set_model_path(shards, writers[t].shard_idx,
                                ModelPath(writers[t].shard_idx))
    /\ writers' = [writers EXCEPT ![t].pc = "publish"]
    /\ heap' = Collect(heap, models', engine, readers, writers')
    /\ UNCHANGED <<obj_count, model_files, last>>
    /\ WriterFrame

RetrainStore(t) ==
    /\ writers[t].op = "retrain_shard"
    /\ writers[t].pc = "store"
    /\ models' = Put(models, writers[t].shard_idx, writers[t].obj)
    /\ shards' = set_model_path(shards, writers[t].shard_idx,
                                ModelPath(writers[t].shard_idx))
    /\ writers' = [writers EXCEPT ![t].pc = "publish"]
    /\ heap' = Collect(heap, models', engine, readers, writers')
    /\ UNCHANGED <<obj_count, model_files, last>>
    /\ WriterFrame

\* retrain_shard, lines 278-281: aggregator.update_model(shard_idx,
\* self.models[shard_idx]) and the return
RetrainPublish(t) ==
    /\ writers[t].op = "retrain_shard"
    /\ writers[t].pc = "publish"
    /\ models' = IF aggregator.created
                 THEN update_model(models, writers[t].shard_idx,
                                   models[writers[t].shard_idx])
                 ELSE models
    /\ writers' = [writers EXCEPT ![t] = NoWrite]
    /\ heap' = Collect(heap, models', engine, readers, writers')
    /\ last' = Call("retrain_shard", NoId, writers[t].shard_idx, "returned",
                    writers[t].obj)
    /\ UNCHANGED <<shards, obj_count, model_files>>
    /\ WriterFrame

\* save_shard_checkpoint, lines 290-297: the model file of the shard is
\* written from the model the caller passes
CheckpointSave(t) ==
    /\ writers[t].op = "none"
    /\ \E shard_idx \in 0..(MaxShards - 1), obj \in DOMAIN heap :
          /\ model_files' = Put(model_files, shard_idx, heap[obj])
          /\ writers' = [writers EXCEPT ![t] =
                            [op |-> "save_shard_checkpoint", pc |-> "store",
                             shard_idx |-> shard_idx, n |-> None,
                             indices |-> <<>>, obj |-> obj]]
          /\ UNCHANGED last
    /\ UNCHANGED <<shards, models, heap, obj_count>>
    /\ WriterFrame

\* save_shard_checkpoint, lines 300-305: self.models[shard_idx] = model and
\* set_model_path
CheckpointStore(t) ==
    /\ writers[t].op = "save_shard_checkpoint"
    /\ writers[t].pc = "store"
    /\ models' = Put(models, writers[t].shard_idx, writers[t].obj)
    /\ shards' = set_model_path(shards, writers[t].shard_idx,
                                ModelPath(writers[t].shard_idx))
    /\ writers' = [writers EXCEPT ![t] = NoWrite]
    /\ heap' = Collect(heap, models', engine, readers, writers')
    /\ last' = Call("save_shard_checkpoint", NoId, writers[t].shard_idx,
                    "returned", None)
    /\ UNCHANGED <<obj_count, model_files>>
    /\ WriterFrame

\* what a step of predict leaves alone
PredictFrame ==
    UNCHANGED <<mgr_vars, models, obj_count, aggregator, model_files,
                verify_vars, engine, writers, task_vars>>

\* what a step of predict that does not return leaves alone
ReaderFrame == PredictFrame /\ UNCHANGED last

\* SISATrainer.predict, lines 239-242, and ShardAggregator.predict, lines
\* 59-64: no aggregator raises RuntimeError; the loop over
\* self.models.items() begins
PredictBegin(t) ==
    /\ readers[t].pc = "idle"
    /\ IF ~aggregator.created \/ DOMAIN models = {}
       THEN UNCHANGED readers
       ELSE readers' = [readers EXCEPT ![t] =
                              [NoPredict EXCEPT
                                 !.pc = "loop", !.todo = DOMAIN models,
                                 !.size = Cardinality(DOMAIN models)]]
    /\ UNCHANGED heap
    /\ ReaderFrame

\* ShardAggregator.predict, lines 66-69: the next (shard_idx, model) of the
\* dict; model(x) starts and reads the parameters of the first layer.  A
\* dict whose size changed raises RuntimeError
PredictForward(t) ==
    /\ readers[t].pc = "loop"
    /\ readers[t].todo # {}
    /\ IF Cardinality(DOMAIN models) # readers[t].size
       THEN readers' = [readers EXCEPT ![t] = NoPredict]
       ELSE LET shard_idx == CHOOSE s \in readers[t].todo :
                                \A u \in readers[t].todo : s <= u
                model == models[shard_idx]
            IN readers' = [readers EXCEPT
                             ![t].pc = "forward",
                             ![t].shard_idx = shard_idx,
                             ![t].obj = model,
                             ![t].first = heap[model].steps]
    /\ UNCHANGED heap
    /\ ReaderFrame

\* ShardAggregator.predict, lines 68-69: model(x) reads the parameters of
\* the last layer; the prediction is torn when the two reads saw different
\* parameters
PredictForwardEnd(t) ==
    /\ readers[t].pc = "forward"
    /\ readers' = [readers EXCEPT
                     ![t].pc = "loop",
                     ![t].todo = @ \ {readers[t].shard_idx},
                     ![t].shard_idx = None,
                     ![t].obj = None,
                     ![t].first = None,
                     ![t].torn =
                        @ \/ heap[readers[t].obj].steps # readers[t].first]
    /\ heap' = Collect(heap, models, engine, readers', writers)
    /\ ReaderFrame

\* ShardAggregator.predict, lines 71-84: the predictions are aggregated
PredictReturn(t) ==
    /\ readers[t].pc = "loop"
    /\ readers[t].todo = {}
    /\ readers' = [readers EXCEPT ![t] = NoPredict]
    /\ last' = Call("predict", NoId, None, "returned",
                    IF readers[t].torn THEN "torn" ELSE "whole")
    /\ UNCHANGED heap
    /\ PredictFrame

\* constrained_unlearning(trainer.get_model_for_shard(shard_idx), x_forget,
\* x_retain, y_retain, epochs=epochs): the default UnlearningConfig apart
\* from epochs, an engine on the model of the shard, and engine.unlearn
ConstrainedUnlearning ==
    /\ ~Unlearning
    /\ \E shard_idx \in DOMAIN models, epochs \in 0..MaxEpochs,
          forget_empty \in BOOLEAN, retain_empty \in BOOLEAN :
          engine' = [UnlearningEngine(heap, get_model_for_shard(models, shard_idx),
                                      TRUE, epochs, DefaultBatchSize)
                        EXCEPT !.pc = "fisher",
                               !.forget_size = IF forget_empty THEN 0 ELSE 1,
                               !.retain_size = IF retain_empty THEN 0 ELSE 1,
                               !.trace = <<Phase("Initialized")>>]
    /\ heap' = Collect(heap, models, engine', readers, writers)
    /\ UNCHANGED last
    /\ UNCHANGED obj_count
    /\ EngineFrame

\* the steps of the unlearn call in progress
UnlearnStep ==
    \/ UnlearnFisher
    \/ UnlearnPrepare
    \/ UnlearnEpoch
    \/ UnlearnBatch
    \/ UnlearnEpochEnd
    \/ UnlearnVerify
    \/ UnlearnReturn

\* retrain_shard and save_shard_checkpoint from several threads
NextWriters ==
    \/ TrainDefaultIds
    \/ \E t \in Writers : RetrainBegin(t)
    \/ \E t \in Writers : RetrainTrain(t)
    \/ \E t \in Writers : RetrainSave(t)
    \/ \E t \in Writers : RetrainStore(t)
    \/ \E t \in Writers : RetrainPublish(t)
    \/ \E t \in Writers : CheckpointSave(t)
    \/ \E t \in Writers : CheckpointStore(t)

SpecWriters == Init /\ [][NextWriters]_vars

\* no retrain_shard or save_shard_checkpoint call is in flight
Quiescent == \A t \in Writers : writers[t].op = "none"

\* the shards the calls in flight of the threads other than t work on
ShardsInFlight(t) ==
    {writers[u].shard_idx : u \in {v \in Writers \ {t} : writers[v].op # "none"}}

\* trainer.train(dataset) while no other call is in flight
TrainWhileQuiescent == Quiescent /\ TrainDefaultIds

\* retrain_shard in thread t on a shard no other thread is working on; each
\* thread may instantiate its model
RetrainBeginOther(t) ==
    /\ obj_count + Cardinality(Instantiating) < MaxObjects + MaxWriters
    /\ \E shard_idx \in (0..(MaxShards - 1)) \ ShardsInFlight(t), n \in 1..MaxN :
          RetrainRead(t, shard_idx, n)

\* training, then retrain_shard calls on different shards from several
\* threads
NextParallel ==
    \/ TrainWhileQuiescent
    \/ \E t \in Writers : RetrainBeginOther(t)
    \/ \E t \in Writers : RetrainTrain(t)
    \/ \E t \in Writers : RetrainSave(t)
    \/ \E t \in Writers : RetrainStore(t)
    \/ \E t \in Writers : RetrainPublish(t)

SpecParallel == Init /\ [][NextParallel]_vars

(***************************************************************************)
(* A ShardAggregator a caller constructs on a dict of models of its own    *)
(* (core/sisa/aggregator.py), and the calls on the aggregator of a         *)
(* trainer.                                                                *)
(***************************************************************************)
\* the shard indices of a caller's dict
ShardKeys == 0..(MaxObjects - 1)

\* aggregation_method: Literal["mean", "vote", "weighted"]
Methods == {"mean", "vote", "weighted"}

\* the weights a caller may give a shard
WeightValues == {Fraction(0, 1), Fraction(1, 4), Fraction(1, 2)}

\* remove_shard, lines 130-131: del self.models[shard_idx]
remove_shard(ms, shard_idx) ==
    IF shard_idx \in DOMAIN ms THEN Del(ms, shard_idx) ELSE ms

\* remove_shard, lines 130-140: self.weights after the call on an
\* aggregator whose models are ms
renormalized_equal(ms, weights, shard_idx) ==
    IF shard_idx \notin DOMAIN ms THEN weights
    ELSE LET left == IF shard_idx \in DOMAIN weights
                     THEN Del(weights, shard_idx) ELSE weights
             total == SumValues(left)
         IN IF total[1] > 0
            THEN [k \in DOMAIN left |-> Fraction(1, Cardinality(DOMAIN left))]
            ELSE left

renormalized(ms, weights, shard_idx) ==
    IF shard_idx \notin DOMAIN ms THEN weights
    ELSE LET left == IF shard_idx \in DOMAIN weights
                     THEN Del(weights, shard_idx) ELSE weights
             total == SumValues(left)
         IN IF total[1] > 0
            THEN [k \in DOMAIN left |-> Divide(left[k], total)]
            ELSE left

\* what a call on an aggregator leaves alone
AggregatorFrame == UNCHANGED <<mgr_vars, model_files, ext_vars>>

\* aggregator = ShardAggregator(models, aggregation_method, weights) on a
\* dict of new models, with the default weights or a weight for each shard
NewAggregator ==
    /\ ~aggregator.created
    /\ obj_count = 0
    /\ \E keys \in SUBSET ShardKeys, method \in Methods, given \in BOOLEAN :
       \E weights \in [(IF given THEN keys ELSE {}) -> WeightValues] :
          LET ms == [k \in keys |-> Cardinality({j \in keys : j < k})]
          IN /\ models' = ms
             /\ heap' = [o \in 0..(Cardinality(keys) - 1) |->
                            [trainset |-> {}, steps |-> 0]]
             /\ obj_count' = Cardinality(keys)
             /\ aggregator' = ShardAggregator_init(ms, method, given, weights)
    /\ last' = Call("ShardAggregator", NoId, None, "returned", None)
    /\ AggregatorFrame

\* aggregator.update_model(shard_idx, model) with a new model of the caller
AggregatorUpdateModel ==
    /\ aggregator.created
    /\ obj_count < MaxObjects
    /\ \E shard_idx \in ShardKeys :
          LET h == Put(heap, obj_count, [trainset |-> {}, steps |-> 0])
              new == update_model(aggregator_models(aggregator, models),
                                  shard_idx, obj_count)
          IN /\ models' = CallerDictAfter(aggregator, models, new)
             /\ aggregator' = AggregatorAfter(aggregator, new, aggregator.weights)
             /\ heap' = Reclaim(h, models')
             /\ last' = Call("update_model", NoId, shard_idx, "returned", None)
    /\ obj_count' = obj_count + 1
    /\ AggregatorFrame

\* aggregator.remove_shard(shard_idx)
AggregatorRemoveShard ==
    /\ aggregator.created
    /\ \E shard_idx \in ShardKeys :
          LET old == aggregator_models(aggregator, models)
              new == remove_shard(old, shard_idx)
          IN /\ models' = CallerDictAfter(aggregator, models, new)
             /\ aggregator' =
                   AggregatorAfter(aggregator, new,
                                   renormalized(old, aggregator.weights, shard_idx))
             /\ heap' = Reclaim(heap, models')
             /\ last' = Call("remove_shard", NoId, shard_idx, "returned", None)
    /\ UNCHANGED obj_count
    /\ AggregatorFrame

\* aggregator.predict(x), lines 59-84: next(iter(self.models.values())) on
\* an empty dict raises StopIteration
AggregatorPredict ==
    /\ aggregator.created
    /\ last' = IF DOMAIN aggregator_models(aggregator, models) = {}
               THEN Call("predict", NoId, None, "raised", "StopIteration")
               ELSE Call("predict", NoId, None, "returned",
                         aggregator.aggregation_method)
    /\ UNCHANGED <<models, heap, obj_count, aggregator>>
    /\ AggregatorFrame

\* an aggregator on a caller's dict
NextAggregator ==
    \/ NewAggregator
    \/ AggregatorUpdateModel
    \/ AggregatorRemoveShard
    \/ AggregatorPredict

SpecAggregator == Init /\ [][NextAggregator]_vars

\* the first train of a trainer, then shards retrained, checkpoints stored
\* by workers, and shards removed from trainer.aggregator
TrainFirst == ~aggregator.created /\ TrainDefaultIds

NextShared ==
    \/ TrainFirst
    \/ RetrainShard
    \/ SaveShardCheckpoint
    \/ AggregatorRemoveShard

SpecShared == Init /\ [][NextShared]_vars

\* predictions served while an engine unlearns on the model of a shard
NextServing ==
    \/ TrainDefaultIds
    \/ ConstrainedUnlearning
    \/ UnlearnStep
    \/ \E t \in Readers : PredictBegin(t)
    \/ \E t \in Readers : PredictForward(t)
    \/ \E t \in Readers : PredictForwardEnd(t)
    \/ \E t \in Readers : PredictReturn(t)

SpecServing == Init /\ [][NextServing]_vars

(***************************************************************************)
(* The background tasks of the API (workers/tasks.py) and the routes that  *)
(* dispatch them.  A task is a coroutine without an await: once started it *)
(* runs to its end on the event loop before any other task starts.         *)
(***************************************************************************)
DefaultTargetClass == 3     \* target_class = 3
NumClasses == 10            \* model.fc = nn.Linear(512, 10)
DemoSubsetSize == 500       \* Subset(dataset, range(500))
LoaderBatchSize == 32       \* DataLoader(subset, batch_size=32, shuffle=True)

\* the base model setup_cifar.py leaves in resnet18_cifar10_base.pth
base_model == [steps |-> 0]

DatasetNames == {"cifar10", "mnist"}

\* data_indices of an UnlearnRequest: none, a class, a class that is not one
ForgetLists == {<<>>, <<DefaultTargetClass>>, <<NumClasses>>}

TaskFrame ==
    UNCHANGED <<mgr_vars, trainer_vars, verify_vars, engine, conc_vars>>

\* POST /train: background_tasks.add_task(train_model_task, ...)
TriggerTraining ==
    /\ Len(background) < MaxQueue
    /\ \E dataset_name \in DatasetNames :
          background' = Append(background,
              [task |-> "train_model_task", dataset_name |-> dataset_name,
               shard_id |-> None, forget_indices |-> <<>>, epochs |-> 0])
    /\ last' = Call("trigger_training", NoId, None, "returned", "dispatched")
    /\ UNCHANGED vision_files
    /\ TaskFrame

\* POST /forget: background_tasks.add_task(unlearn_task, ...), whatever is
\* already dispatched for the shard
TriggerUnlearning ==
    /\ Len(background) < MaxQueue
    /\ \E shard_id \in 0..(MaxShards - 1), data_indices \in ForgetLists,
          epochs \in 0..MaxEpochs :
          /\ background' = Append(background,
                [task |-> "unlearn_task", dataset_name |-> "",
                 shard_id |-> shard_id, forget_indices |-> data_indices,
                 epochs |-> epochs])
          /\ last' = Call("trigger_unlearning", NoId, shard_id, "returned",
                          "unlearning_started")
    /\ UNCHANGED vision_files
    /\ TaskFrame

\* train_model_task: the base model is copied to shard_0.pth
train_model_task(dataset_name, base_exists) ==
    IF dataset_name \in {"cifar10", "custom"}
    THEN IF ~base_exists
         THEN [status |-> "failed", files |-> vision_files]
         ELSE [status |-> "completed", files |-> Put(vision_files, 0, base_model)]
    ELSE [status |-> "completed", files |-> vision_files]

\* unlearn_task: the file of the shard is loaded, unlearn_class runs epochs
\* times over the batches and steps on those that hold records of the
\* target class, and the result is saved over the same file
unlearn_task(shard_id, forget_indices, epochs) ==
    IF shard_id \notin DOMAIN vision_files
    THEN [status |-> "failed", files |-> vision_files]
    ELSE LET target_class == IF Len(forget_indices) = 1
                             THEN forget_indices[1]
                             ELSE DefaultTargetClass
             batches == IF target_class \in 0..(NumClasses - 1)
                        THEN NumBatches(DemoSubsetSize, LoaderBatchSize)
                        ELSE 0
             model == vision_files[shard_id]
             unlearned == [model EXCEPT
                             !.steps = Min(@ + epochs * batches, MaxSteps)]
         IN [status |-> "completed",
             files |-> Put(vision_files, shard_id, unlearned)]

\* the event loop runs one of the dispatched tasks to its end
RunBackgroundTask ==
    /\ \E i \in DOMAIN background, base_exists \in BOOLEAN :
          LET job == background[i]
              done == IF job.task = "train_model_task"
                      THEN train_model_task(job.dataset_name, base_exists)
                      ELSE unlearn_task(job.shard_id, job.forget_indices,
                                        job.epochs)
          IN /\ vision_files' = done.files
             /\ background' = [j \in 1..(Len(background) - 1) |->
                                 IF j < i THEN background[j]
                                 ELSE background[j + 1]]
             /\ last' = Call(job.task, NoId, job.shard_id, done.status, None)
    /\ TaskFrame

NextTasks ==
    \/ TriggerTraining
    \/ TriggerUnlearning
    \/ RunBackgroundTask

SpecTasks == Init /\ [][NextTasks]_vars

(***************************************************************************)
(* C1: after create_shards on a dataset of n records has built the shards, *)
(* the union of the shards' data_indices is 0..n-1, the shards are         *)
(* pairwise disjoint and no shard lists an index twice.                    *)
(***************************************************************************)
C1_PartitionComplete ==
    (last.op = "create_shards" /\ last.status = "returned") =>
        /\ DOMAIN shards = 0..(num_shards - 1)
        /\ UNION {Range(shards[s].data_indices) : s \in DOMAIN shards} = 0..(last.n - 1)
        /\ \A s, t \in DOMAIN shards :
              s # t => Range(shards[s].data_indices) \cap Range(shards[t].data_indices) = {}
        /\ \A s \in DOMAIN shards :
              Cardinality(Range(shards[s].data_indices)) = Len(shards[s].data_indices)

C1_Witness ==
    /\ last.op = "create_shards" /\ last.status = "returned"
    /\ num_shards = 2
    /\ last.n >= 1
    /\ last.n % num_shards # 0

\* sum of num_samples over all shards
TotalSamples(sh) == SumOver(DOMAIN sh, [s \in DOMAIN sh |-> sh[s].num_samples])

(***************************************************************************)
(* C2: for a data_id present in data_to_shard, remove_data_from_shard      *)
(* makes get_shard_for_data return None, lowers the owning shard's         *)
(* num_samples by exactly one and lowers the total of num_samples by       *)
(* exactly one.                                                            *)
(***************************************************************************)
C2_DeletionConsistency ==
    [][(last'.op = "remove_data_from_shard" /\ last'.id \in DOMAIN data_to_shard) =>
         LET owner == data_to_shard[last'.id].shard_index
         IN /\ get_shard_for_data(data_to_shard', last'.id) = None
            /\ owner \in DOMAIN shards
            /\ shards'[owner].num_samples = shards[owner].num_samples - 1
            /\ TotalSamples(shards') = TotalSamples(shards) - 1]_vars

\* a data_id is mapped to (shard s, index i) exactly when i is in shard s
IndexAgreesWithShards ==
    /\ \A d \in DOMAIN data_to_shard :
          /\ data_to_shard[d].shard_index \in DOMAIN shards
          /\ data_to_shard[d].data_index \in
                Range(shards[data_to_shard[d].shard_index].data_indices)
    /\ \A s \in DOMAIN shards : \A i \in Range(shards[s].data_indices) :
          \E d \in DOMAIN data_to_shard :
              data_to_shard[d].shard_index = s /\ data_to_shard[d].data_index = i

\* a removal takes the index out of the owning shard together with the
\* mapping
RemovalUpdatesBoth ==
    (last'.op = "remove_data_from_shard" /\ last'.id \in DOMAIN data_to_shard) =>
        LET m == data_to_shard[last'.id]
        IN /\ last'.id \notin DOMAIN data_to_shard'
           /\ m.shard_index \in DOMAIN shards
           /\ m.data_index \in Range(shards[m.shard_index].data_indices)
           /\ m.data_index \notin Range(shards'[m.shard_index].data_indices)

(***************************************************************************)
(* C3: in every reachable state the index and the shards agree (a data_id  *)
(* is mapped to shard s and index i exactly when i is in the data_indices  *)
(* of s), and every removal updates both structures.                       *)
(***************************************************************************)
C3_IndexShardAgreement ==
    /\ []IndexAgreesWithShards
    /\ [][RemovalUpdatesBoth]_vars

(***************************************************************************)
(* C4: retrain_shard on a shard with members stores a newly instantiated   *)
(* model trained on exactly the data_indices the ShardManager holds for    *)
(* the shard at the call, so no index removed from the shard since it was  *)
(* built is in the training set of the stored model.                       *)
(***************************************************************************)
C4_RetrainOnCurrentMembers ==
    (last.op = "retrain_shard" /\ last.status = "returned") =>
        LET s == last.n
        IN /\ s \in DOMAIN models
           /\ models[s] = last.ret
           /\ models[s] = obj_count - 1
           /\ heap[models[s]].trainset = Range(get_data_indices_for_shard(shards, s))
           /\ heap[models[s]].trainset # {}
           /\ heap[models[s]].steps = 0
           /\ \A r \in removed : r[1] = s => r[2] \notin heap[models[s]].trainset

C4_Witness ==
    /\ last.op = "retrain_shard" /\ last.status = "returned"
    /\ \E r \in removed : r[1] = last.n
    /\ heap[models[last.n]].trainset # {}

(***************************************************************************)
(* C5: a verdict an entry point reports is positive only when the mean     *)
(* confidence on the forget records is below the threshold and the         *)
(* accuracy on the retained records is above the utility floor.            *)
(***************************************************************************)
C5_VerdictNeedsBoth ==
    (verdict.entry # "none" /\ ~verdict.raised /\ verdict.positive) =>
        (verdict.forget_below /\ verdict.retain_above)

(***************************************************************************)
(* C6: every certificate written records a verification whose success is   *)
(* true, and a POST /verify request for a trained shard whose model is     *)
(* still confident on the forget records ends with a response, not with an *)
(* error.                                                                  *)
(***************************************************************************)
C6_CertificateOnlyAfterPass ==
    /\ \A c \in certificates : c.success
    /\ (verdict.entry = "verify_model" /\ ~verdict.forget_below) => ~verdict.raised

\* the trace of a call with the given configuration that ran to its end
ExpectedTrace(use_fisher, epochs) ==
    <<Phase("Initialized")>>
        \o (IF use_fisher THEN <<Phase("FisherComputed")>> ELSE <<>>)
        \o [e \in 1..epochs |-> Training(e)]
        \o <<Phase("Verified"), Phase("Done")>>

\* an optimizer step of a call with use_fisher comes after the Fisher phase
FisherBeforeStep ==
    (engine.created /\ engine.pc = "batch" /\ engine.use_fisher) =>
        /\ Len(engine.trace) >= 2
        /\ engine.trace[2] = Phase("FisherComputed")
        /\ engine.fisher_diagonal = "computed"

(***************************************************************************)
(* C9: an unlearn call that has returned went through Initialized,         *)
(* FisherComputed (exactly when use_fisher is set), Training 1..epochs,    *)
(* Verified and Done in this order; every training step of a call with     *)
(* use_fisher came after the Fisher phase; the result holds a history with *)
(* one entry per epoch and the verification outcome.                       *)
(***************************************************************************)
C9_PhaseOrder ==
    /\ FisherBeforeStep
    /\ (engine.created /\ engine.pc = "done") =>
          /\ engine.trace = ExpectedTrace(engine.use_fisher, engine.epochs)
          /\ {"history", "verification"} \subseteq DOMAIN engine.result
          /\ Len(engine.result.history) = engine.epochs
          /\ \A e \in 1..engine.epochs : engine.result.history[e].epoch = e
          /\ "success" \in DOMAIN engine.result.verification

C9_Witness ==
    /\ engine.created
    /\ engine.pc = "done"
    /\ engine.use_fisher
    /\ engine.epochs >= 2
    /\ Len(engine.result.history) = engine.epochs
    /\ engine.result.history[1].num_batches >= 2

(***************************************************************************)
(* C10: every unlearn call of an engine starts from the parameters the     *)
(* model had when the engine was constructed (engine.original_model).      *)
(***************************************************************************)
C10_RestartFromOriginal ==
    (engine.created /\ engine.pc # "idle") => engine.start = engine.original_model

(***************************************************************************)
(* C7: for each shard, at most one mutating call of the trainer            *)
(* (retrain_shard, save_shard_checkpoint) is in progress at any time.      *)
(***************************************************************************)
MutatorsOn(shard_idx) ==
    {t \in Writers : writers[t].op # "none" /\ writers[t].shard_idx = shard_idx}

C7_OneMutatorPerShard ==
    \A shard_idx \in 0..(MaxShards - 1) :
        Cardinality(MutatorsOn(shard_idx)) <= 1

(***************************************************************************)
(* C8: a prediction in flight uses, for each shard, one complete model:    *)
(* the object whose forward pass is running is not modified in place, and  *)
(* no forward pass read parameters of two different updates.               *)
(***************************************************************************)
C8_WholeModelServed ==
    \A t \in Readers :
        /\ ~readers[t].torn
        /\ readers[t].pc = "forward" =>
              heap[readers[t].obj].steps = readers[t].first

(***************************************************************************)
(* C11: an unlearn call on an empty forget set raises no exception and     *)
(* leaves the parameters of the model as they were when it began.          *)
(***************************************************************************)
C11_EmptyForgetSkipped ==
    (engine.created /\ engine.pc # "idle" /\ engine.forget_size = 0) =>
        /\ engine.pc # "raised"
        /\ heap[engine.model] = engine.start

(***************************************************************************)
(* C12: the index sets create_shards builds are a function of the dataset  *)
(* length, num_shards and random_seed alone: whatever ran before on the    *)
(* manager, shard s holds section s of the permutation the seed selects.   *)
(***************************************************************************)
SeededPartition(n, k, seed) ==
    LET indices == Unrank(seed % Factorial(n), [i \in 1..n |-> i - 1])
    IN [s \in 0..(k - 1) |-> array_split(indices, k, s)]

C12_PartitionDeterministic ==
    (last.op = "create_shards" /\ last.status = "returned") =>
        \A s \in 0..(num_shards - 1) :
            shards[s].data_indices =
                SeededPartition(last.n, num_shards, random_seed)[s]

\* a later partition of two or more records into two or more shards, on a
\* manager that had built shards before
C12_Witness ==
    /\ last.op = "create_shards" /\ last.status = "returned"
    /\ last.n >= 2
    /\ num_shards >= 2
    /\ uuid_count > num_shards

(***************************************************************************)
(* C13: a create_shards call that follows a create_shards call with the    *)
(* same dataset length and the same data ids leaves the shard records      *)
(* (shard_id included) and the data_id mappings as the first call left     *)
(* them.                                                                   *)
(***************************************************************************)
C13_RepartitionIdempotent ==
    [][(/\ last.op = "create_shards" /\ last.status = "returned"
        /\ last'.op = "create_shards" /\ last'.status = "returned"
        /\ last'.n = last.n
        /\ index_to_data_id' = index_to_data_id)
       => (shards' = shards /\ data_to_shard' = data_to_shard)]_vars

(***************************************************************************)
(* C14: remove_data_from_shard on a data_id that data_to_shard does not    *)
(* hold returns None, raises nothing and leaves shards, data_to_shard and  *)
(* index_to_data_id as they were.                                          *)
(***************************************************************************)
C14_UnknownIdIsNoOp ==
    [][(last'.op = "remove_data_from_shard" /\ last'.id \notin DOMAIN data_to_shard)
       => /\ last'.status = "returned"
          /\ last'.ret = None
          /\ UNCHANGED <<shards, data_to_shard, index_to_data_id>>]_vars

\* a data_id was removed, and a removal has since found its data_id absent
C14_Witness ==
    /\ last.op = "remove_data_from_shard"
    /\ last.status = "returned"
    /\ last.ret = None
    /\ removed # {}

(***************************************************************************)
(* C15: in every state of the ShardManager, each shard's num_samples is    *)
(* the length of its data_indices.                                         *)
(***************************************************************************)
C15_NumSamplesIsLength ==
    \A s \in DOMAIN shards :
        shards[s].num_samples = Len(shards[s].data_indices)

\* a manager loaded from its file, whose only shard was trained and has
\* lost record 0 of two or more
C15_Witness ==
    /\ last.op = "load"
    /\ num_shards = 1
    /\ 0 \in DOMAIN shards
    /\ shards[0].model_path # NoPath
    /\ shards[0].data_indices # <<>>
    /\ 0 \notin Range(shards[0].data_indices)

(***************************************************************************)
(* C16: an index removed from a shard never reappears in any shard: no     *)
(* step (remove, retrain_shard, train) puts an index that was removed      *)
(* since the shards were built back into the data_indices of a shard.      *)
(***************************************************************************)
C16_RemovedNeverReappears ==
    [][\A r \in removed : \A s \in DOMAIN shards' :
          r[2] \notin Range(shards'[s].data_indices)]_vars

(***************************************************************************)
(* C17: create_shards with num_shards < 1 or num_shards > len(dataset)     *)
(* raises, and leaves shards, data_to_shard and index_to_data_id as they   *)
(* were.                                                                   *)
(***************************************************************************)
C17_BadShardCountRejected ==
    [][(last'.op = "create_shards" /\ (num_shards < 1 \/ num_shards > last'.n))
       => /\ last'.status = "raised"
          /\ UNCHANGED <<shards, data_to_shard, index_to_data_id>>]_vars

(***************************************************************************)
(* C18: a create_shards call whose data_ids list is not as long as the     *)
(* dataset raises and leaves shards, data_to_shard and index_to_data_id    *)
(* as they were before the call.                                           *)
(***************************************************************************)
C18_MismatchRejected ==
    [][(/\ last'.op = "create_shards"
        /\ \E ids \in IdLists :
              /\ Len(ids) # last'.n
              /\ last' = Call("create_shards", NoId, last'.n,
                              IF CreateOutcome(last'.n, TRUE, ids) = "built"
                              THEN "returned" ELSE "raised", None)
              /\ CreateShardsCall(last'.n, TRUE, ids))
       => /\ last'.status = "raised"
          /\ UNCHANGED <<shards, data_to_shard, index_to_data_id>>]_vars

\* a call was rejected on a manager that can split and holds shards
C18_Witness ==
    /\ last.op = "create_shards"
    /\ last.status = "raised"
    /\ num_shards >= 1
    /\ DOMAIN shards # {}

(***************************************************************************)
(* C19: retrain_shard on a shard whose data_indices are empty returns the  *)
(* status "empty", raises nothing, instantiates no model and leaves the    *)
(* stored models, the model files, the shard records and the aggregator    *)
(* as they were.                                                           *)
(***************************************************************************)
C19_EmptyShardNotRetrained ==
    [][\A shard_idx \in DOMAIN shards, n \in 1..MaxN :
          (shards[shard_idx].data_indices = <<>> /\ retrain_shard(shard_idx, n))
          => /\ last'.status = "empty"
             /\ UNCHANGED <<models, heap, obj_count, model_files, shards,
                            aggregator>>]_vars

\* a shard that was trained and has lost all its members was asked to
\* retrain
C19_Witness ==
    /\ last.op = "retrain_shard"
    /\ last.status = "empty"
    /\ last.n \in DOMAIN shards
    /\ last.n \in DOMAIN models
    /\ shards[last.n].model_path # NoPath
    /\ shards[last.n].data_indices = <<>>
    /\ \E r \in removed : r[1] = last.n

(***************************************************************************)
(* C20: a retrain_shard call on shard i, which runs _train_shard on it,    *)
(* leaves every other shard j as it was: the shard record (member set and  *)
(* model_path), the model object stored for j, that object's parameters    *)
(* and the model file of j.                                                *)
(***************************************************************************)
C20_OtherShardsUntouched ==
    [][\A i \in 0..(MaxShards - 1), n \in 1..MaxN :
          retrain_shard(i, n) =>
              \A j \in ((DOMAIN shards) \cup (DOMAIN models)) \ {i} :
                  /\ j \in DOMAIN shards =>
                        (j \in DOMAIN shards' /\ shards'[j] = shards[j])
                  /\ j \in DOMAIN models =>
                        /\ j \in DOMAIN models'
                        /\ models'[j] = models[j]
                        /\ models[j] \in DOMAIN heap'
                        /\ heap'[models[j]] = heap[models[j]]
                  /\ j \in DOMAIN model_files =>
                        (j \in DOMAIN model_files'
                         /\ model_files'[j] = model_files[j])]_vars

\* one of two trained shards has been retrained into a new model object
\* while the other shard still holds the model and the path of its training
C20_Witness ==
    /\ last.op = "retrain_shard"
    /\ last.status = "returned"
    /\ models[last.n] = last.ret
    /\ \E j \in (DOMAIN shards) \ {last.n} :
          /\ j \in DOMAIN models
          /\ models[j] \in DOMAIN heap
          /\ models[j] < last.ret
          /\ shards[j].model_path = ModelPath(j)
          /\ shards[j].data_indices # <<>>

C22_RemovalRenormalizes ==
    [][(/\ last'.op = "remove_shard"
        /\ last'.n \in DOMAIN aggregator_models(aggregator, models)
        /\ DOMAIN aggregator_models(aggregator', models') # {})
       => LET kept == DOMAIN aggregator_models(aggregator', models')
              w == aggregator.weights
              prev == SumValues([k \in kept \cap DOMAIN w |-> w[k]])
          IN /\ SumValues(aggregator'.weights) = <<1, 1>>
             /\ prev[1] > 0
             /\ \A k \in kept :
                   /\ k \in DOMAIN w
                   /\ k \in DOMAIN aggregator'.weights
                   /\ aggregator'.weights[k] = Divide(w[k], prev)]_vars

(***************************************************************************)
(* C22, amended: after remove_shard on a shard that is present, when the   *)
(* weights left in the table have a positive sum, the table holds exactly  *)
(* those weights, each divided by that sum, and they sum to 1; this holds  *)
(* after any sequence of removals and updates.                             *)
(***************************************************************************)
C22_RemovalRenormalizesPositive ==
    [][(/\ last'.op = "remove_shard"
        /\ last'.n \in DOMAIN aggregator_models(aggregator, models))
       => LET w == aggregator.weights
              left == (DOMAIN w) \ {last'.n}
              total == SumValues([k \in left |-> w[k]])
          IN total[1] > 0 =>
                /\ DOMAIN aggregator'.weights = left
                /\ \A k \in left : aggregator'.weights[k] = Divide(w[k], total)
                /\ SumValues(aggregator'.weights) = <<1, 1>>]_vars

\* a removal has redistributed unequal weights in proportion: 1/4 and 1/2
\* have become 1/3 and 2/3
C22_Witness ==
    /\ last.op = "remove_shard"
    /\ aggregator.created
    /\ \E j \in DOMAIN aggregator.weights, k \in DOMAIN aggregator.weights :
          /\ aggregator.weights[j] = <<1, 3>>
          /\ aggregator.weights[k] = <<2, 3>>
          /\ {j, k} \subseteq DOMAIN aggregator_models(aggregator, models)

(***************************************************************************)
(* C23: predict on an aggregator that holds no shard, constructed empty    *)
(* or emptied by remove_shard, raises the dedicated EmptyAggregatorError.  *)
(***************************************************************************)
C23_EmptyAggregatorError ==
    (/\ aggregator.created
     /\ last.op = "predict"
     /\ DOMAIN aggregator_models(aggregator, models) = {})
    => (last.status = "raised" /\ last.ret = "EmptyAggregatorError")

(***************************************************************************)
(* C24, as stated: every verify_erasure call returns, with is_erased true  *)
(* exactly when the mean true-label confidence over the samples passed is  *)
(* strictly below the threshold; nothing is raised, whatever the samples.  *)
(***************************************************************************)
C24_ErasedIffBelow ==
    last.op = "verify_erasure" =>
       \A threshold \in Thresholds, forget \in Measurements(last.n) :
          last = VerifyErasureOutcome(forget, threshold) =>
             /\ last.status = "returned"
             /\ last.ret.is_erased <=>
                   (SumOver(DOMAIN forget, [i \in DOMAIN forget |-> forget[i].conf])
                       < threshold * Len(forget))

(***************************************************************************)
(* C24, amended: a verify_erasure call on at least one sample returns,     *)
(* and its is_erased is true exactly when the mean true-label confidence   *)
(* over the samples is strictly below the threshold (a mean equal to the   *)
(* threshold is not erased).                                               *)
(***************************************************************************)
C24_ErasedIffBelowNonEmpty ==
    (last.op = "verify_erasure" /\ last.n >= 1) =>
       \A threshold \in Thresholds, forget \in Measurements(last.n) :
          last = VerifyErasureOutcome(forget, threshold) =>
             /\ last.status = "returned"
             /\ last.ret.is_erased = verdict.positive
             /\ last.ret.is_erased <=>
                   (SumOver(DOMAIN forget, [i \in DOMAIN forget |-> forget[i].conf])
                       < threshold * Len(forget))

\* verify_erasure has returned is_erased = false for a mean confidence equal
\* to the threshold
C24_Witness ==
    /\ last.op = "verify_erasure"
    /\ last.status = "returned"
    /\ last.n >= 1
    /\ ~last.ret.is_erased
    /\ ~verdict.positive
    /\ last.ret.mean_confidence[1] = last.ret.threshold * last.ret.mean_confidence[2]

(***************************************************************************)
(* C25: when the model file cannot be written during train, retrain_shard  *)
(* or save_shard_checkpoint, the call raises and the shard whose save      *)
(* failed keeps the model entry and the model_path it had: those of the    *)
(* last model saved for it.                                                *)
(***************************************************************************)
C25_UnsavedModelNotRegistered ==
    [][\A shard_idx \in 0..(MaxShards - 1), torn \in BOOLEAN :
          (\/ \E n \in 1..MaxN : train_unsaved(n, shard_idx, torn)
           \/ \E n \in 1..MaxN : retrain_shard_unsaved(shard_idx, n, torn)
           \/ \E obj \in DOMAIN heap :
                 save_shard_checkpoint_unsaved(shard_idx, obj, torn))
          => /\ last'.status = "raised"
             /\ get_model_for_shard(models', shard_idx)
                   = get_model_for_shard(models, shard_idx)
             /\ shard_idx \in DOMAIN shards =>
                   /\ shard_idx \in DOMAIN shards'
                   /\ shards'[shard_idx].model_path = shards[shard_idx].model_path]_vars

\* C26: after ShardManager.load of the file ShardManager.save wrote, the
\* manager holds the state the file was saved from: the same shard records
\* (shard_id, shard_index, num_samples, data_indices, model_path,
\* created_at, updated_at), the same data_id-to-shard mappings and the same
\* index-to-data_id mapping
C26_SaveLoadRoundTrip ==
    last.op = "load" =>
        /\ shards = manager_file.shards
        /\ data_to_shard = manager_file.data_to_shard
        /\ index_to_data_id = manager_file.index_to_data_id

\* the least q with q * batch_size >= size
CeilDiv(size, batch_size) ==
    CHOOSE q \in 0..size : q * batch_size >= size /\ (q - 1) * batch_size < size

\* the optimizer steps an unlearn call has counted, epoch by epoch
StepsPerEpoch(expected) ==
    /\ \A i \in DOMAIN engine.history :
          engine.history[i].num_batches = expected
    /\ engine.pc = "batch" =>
          /\ engine.num_batches + engine.batches_left = expected
          /\ Len(engine.history) = engine.epoch
    /\ engine.pc \in {"verify", "return", "done"} =>
          Len(engine.history) = engine.epochs
    /\ (last.op = "unlearn" /\ last.status = "raised") =>
          last.ret # "StopIteration"

\* C28 (as stated): for any non-empty forget set and any retain set, every
\* epoch of unlearn performs exactly ceil(|forget| / batch_size) optimizer
\* steps and the loop ends after epochs times that many steps, never with
\* the StopIteration of an iterator
C28_EpochLengthAnyRetain ==
    (engine.created /\ engine.pc # "idle" /\ engine.forget_size > 0) =>
        StepsPerEpoch(CeilDiv(engine.forget_size, engine.batch_size))

\* C28 (amended): for any non-empty forget set and any non-empty retain set,
\* every epoch of unlearn performs exactly ceil(|forget| / batch_size)
\* optimizer steps, the retain iterator being restarted when it is exhausted
\* first, and the loop ends after epochs times that many steps whatever the
\* size of the retain set
C28_EpochLengthNonEmptyRetain ==
    (/\ engine.created
     /\ engine.pc # "idle"
     /\ engine.forget_size > 0
     /\ engine.retain_size > 0) =>
        StepsPerEpoch(CeilDiv(engine.forget_size, engine.batch_size))

\* a call on 2 forget samples and 1 retain sample in batches of 1 returned
\* after 2 epochs of 2 steps each: the retain iterator was restarted in
\* every epoch
C28_Witness ==
    /\ engine.created
    /\ engine.pc = "done"
    /\ engine.forget_size = 2
    /\ engine.retain_size = 1
    /\ engine.batch_size = 1
    /\ engine.epochs = 2
    /\ Len(engine.history) = 2
    /\ \A i \in 1..2 : engine.history[i].num_batches = 2

\* C29: in every state of a ShardAggregator reached by update_model and
\* remove_shard calls, the shard indices that have a weight are the shard
\* indices that have a model, and update_model leaves the weight table as
\* it was
C29_WeightsMatchModels ==
    /\ [](aggregator.created =>
            DOMAIN aggregator.weights =
                DOMAIN aggregator_models(aggregator, models))
    /\ [][last'.op = "update_model" =>
            aggregator'.weights = aggregator.weights]_vars

\* C30: once train has built the aggregator, after any sequence of
\* retrain_shard, save_shard_checkpoint and aggregator.remove_shard calls
\* the aggregator's shard-to-model table is the trainer's: the same shard
\* indices, each with the same model object
C30_TrainerAndAggregatorAgree ==
    aggregator.created =>
        /\ DOMAIN aggregator_models(aggregator, models) = DOMAIN models
        /\ \A s \in DOMAIN models :
              aggregator_models(aggregator, models)[s] =
                  get_model_for_shard(models, s)

\* a shard was removed from the aggregator of a trainer that still holds a
\* model built after train (by retrain_shard) for another shard
C30_Witness ==
    /\ aggregator.created
    /\ last.op = "remove_shard"
    /\ last.n \in DOMAIN shards
    /\ last.n \notin DOMAIN models
    /\ \E s \in DOMAIN models : models[s] >= num_shards

====
